---- MODULE Spec2Model ----
(***************************************************************************)
(* Model of the word-hunt similarity ranking engine                        *)
(* (src/backend/game.py and its helpers).                                  *)
(*                                                                         *)
(* Text is modelled as a sequence of one-character strings, so that        *)
(* strip(), lower(), split() and float() are computed, not assumed.        *)
(* A similarity score is a fixed-point integer in millionths (the writer   *)
(* prints scores with six decimals); a percentile is an exact fraction     *)
(* [num, den].                                                             *)
(***************************************************************************)
EXTENDS Integers, Sequences, FiniteSets, TLC

\* ------------------------------------------------------------------------
\* Characters and Python string primitives
\* ------------------------------------------------------------------------
TAB == "\t"
NL == "\n"
SP == " "

\* str.isspace() over the modelled alphabet
IsSpace(c) == c \in {SP, TAB, NL}

\* str.lower() on one character of the modelled alphabet
LowerChar(c) ==
    CASE c = "A" -> "a" [] c = "C" -> "c" [] c = "D" -> "d" [] c = "G" -> "g"
      [] c = "O" -> "o" [] c = "T" -> "t" [] OTHER -> c

\* str.lower()
Lower(s) == [i \in 1..Len(s) |-> LowerChar(s[i])]

SetMin(S) == CHOOSE lo \in S : \A el \in S : lo <= el
SetMax(S) == CHOOSE hi \in S : \A el \in S : hi >= el

\* str.strip(): drop leading and trailing whitespace
Strip(s) ==
    LET keep == {i \in 1..Len(s) : ~IsSpace(s[i])}
    IN  IF keep = {} THEN <<>> ELSE SubSeq(s, SetMin(keep), SetMax(keep))

\* str.rstrip("\n")
RStripNL(s) ==
    LET keep == {i \in 1..Len(s) : s[i] # NL}
    IN  IF keep = {} THEN <<>> ELSE SubSeq(s, 1, SetMax(keep))

\* positions of character c in s
Positions(s, c) == {i \in 1..Len(s) : s[i] = c}

\* s.split(c, 1): one part when c does not occur, else the text before the
\* first c and the text after it
SplitFirst(s, c) ==
    LET ps == Positions(s, c)
    IN  IF ps = {} THEN <<s>>
        ELSE <<SubSeq(s, 1, SetMin(ps) - 1), SubSeq(s, SetMin(ps) + 1, Len(s))>>

\* s.rsplit(c, 1): as SplitFirst, at the last c
RSplitLast(s, c) ==
    LET ps == Positions(s, c)
    IN  IF ps = {} THEN <<s>>
        ELSE <<SubSeq(s, 1, SetMax(ps) - 1), SubSeq(s, SetMax(ps) + 1, Len(s))>>

\* s.split(c): every part between occurrences of c (always at least one part)
RECURSIVE SplitAll(_, _)
SplitAll(s, c) ==
    LET ps == Positions(s, c)
    IN  IF ps = {} THEN <<s>>
        ELSE <<SubSeq(s, 1, SetMin(ps) - 1)>>
               \o SplitAll(SubSeq(s, SetMin(ps) + 1, Len(s)), c)

\* s.split(): the maximal runs of non-whitespace characters
RECURSIVE SplitWS(_)
SplitWS(s) ==
    LET keep == {i \in 1..Len(s) : ~IsSpace(s[i])}
    IN  IF keep = {} THEN <<>>
        ELSE LET b == SetMin(keep)
                 ws == {i \in b..Len(s) : IsSpace(s[i])}
                 e == IF ws = {} THEN Len(s) ELSE SetMin(ws) - 1
             IN  <<SubSeq(s, b, e)>> \o SplitWS(SubSeq(s, e + 1, Len(s)))

\* ------------------------------------------------------------------------
\* float(): [ws] [+-] (inf | infinity | nan | number) [ws], any case;
\* number = digits [. [digits]] [e [+-] digits] or . digits [e ...], where
\* digits may hold single underscores between two digits
\* ------------------------------------------------------------------------
\* scores are held in millionths
SCALE == 1000000

\* float("inf") and every score of 2147 and more, which the model's integers
\* cannot hold in millionths; its negative is float("-inf") and every score
\* of -2147 and less
ScoreMax == 2147483647

\* float("nan"): every comparison with it is false, so it lies below every
\* threshold
ScoreNaN == (0 - ScoreMax) - 1

Digits == {"0", "1", "2", "3", "4", "5", "6", "7", "8", "9"}

DigitVal(c) ==
    CASE c = "0" -> 0 [] c = "1" -> 1 [] c = "2" -> 2 [] c = "3" -> 3
      [] c = "4" -> 4 [] c = "5" -> 5 [] c = "6" -> 6 [] c = "7" -> 7
      [] c = "8" -> 8 [] c = "9" -> 9

RECURSIVE DigitsVal(_)
DigitsVal(s) ==
    IF s = <<>> THEN 0
    ELSE 10 * DigitsVal(SubSeq(s, 1, Len(s) - 1)) + DigitVal(s[Len(s)])

AllDigits(s) == \A i \in 1..Len(s) : s[i] \in Digits

\* the fraction digits f as millionths (six places, as the writer prints)
RECURSIVE FracVal(_, _)
FracVal(f, places) ==
    IF places = 0 \/ f = <<>> THEN 0
    ELSE DigitVal(f[1]) * (10 ^ (places - 1)) + FracVal(Tail(f), places - 1)

\* the letters of inf, infinity and nan in lower case, every other
\* character as it is
LowerFloatChar(c) ==
    CASE c = "I" -> "i" [] c = "N" -> "n" [] c = "F" -> "f" [] c = "T" -> "t"
      [] c = "Y" -> "y" [] c = "A" -> "a" [] c = "E" -> "e" [] OTHER -> c

\* a run of digits with single underscores between digits
IsDigitPart(s) ==
    /\ s # <<>>
    /\ s[1] \in Digits
    /\ s[Len(s)] \in Digits
    /\ \A i \in 1..Len(s) : s[i] \in Digits \cup {"_"}
    /\ \A i \in 1..(Len(s) - 1) : ~(s[i] = "_" /\ s[i + 1] = "_")

DropUnderscores(s) == SelectSeq(s, LAMBDA c : c # "_")

\* the digits without their leading zeros
DropLeadingZeros(s) ==
    IF \A i \in 1..Len(s) : s[i] = "0" THEN <<>>
    ELSE SubSeq(s, SetMin({i \in 1..Len(s) : s[i] # "0"}), Len(s))

Zeros(n) == [i \in 1..n |-> "0"]

\* beyond this many places past either end of the mantissa a number is
\* inf or 0.0 whatever its digits: 10 ** 400 is inf and 10 ** -400 is 0.0
ExponentCap == 400

\* the exponent digits as a number, cut at cap
ExponentVal(s, cap) ==
    IF Len(DropLeadingZeros(s)) > 6 THEN cap
    ELSE IF DigitsVal(DropLeadingZeros(s)) > cap THEN cap
    ELSE DigitsVal(DropLeadingZeros(s))

\* Natural numbers of any size, for the rounding of float(): the sequence
\* of the decimal digits, most significant first, without leading zeros
RECURSIVE BigOfNat(_)
BigOfNat(n) == IF n = 0 THEN <<>> ELSE BigOfNat(n \div 10) \o <<n % 10>>

BigOfDigits(s) ==
    [i \in 1..Len(DropLeadingZeros(s)) |-> DigitVal(DropLeadingZeros(s)[i])]

RECURSIVE BigSmall(_)
BigSmall(n) ==
    IF n = <<>> THEN 0
    ELSE 10 * BigSmall(SubSeq(n, 1, Len(n) - 1)) + n[Len(n)]

BigEven(n) == n = <<>> \/ n[Len(n)] % 2 = 0

BigLess(a, b) ==
    IF Len(a) # Len(b) THEN Len(a) < Len(b)
    ELSE \E i \in 1..Len(a) :
            a[i] < b[i] /\ \A j \in 1..(i - 1) : a[j] = b[j]

\* n + 1
BigSucc(n) ==
    IF \A i \in 1..Len(n) : n[i] = 9
    THEN <<1>> \o [i \in 1..Len(n) |-> 0]
    ELSE [i \in 1..Len(n) |->
            IF \E j \in (i + 1)..Len(n) : n[j] # 9 THEN n[i]
            ELSE IF n[i] # 9 THEN n[i] + 1
            ELSE 0]

\* 2 * n: a digit takes a carry when the digit after it is 5 or more
BigDouble(n) ==
    (IF n # <<>> /\ n[1] >= 5 THEN <<1>> ELSE <<>>)
    \o [i \in 1..Len(n) |->
          ((2 * n[i]) % 10) + (IF i < Len(n) /\ n[i + 1] >= 5 THEN 1 ELSE 0)]

\* n * 2 ** e
RECURSIVE BigTimesPow2(_, _)
BigTimesPow2(n, e) ==
    IF e = 0 \/ n = <<>> THEN n ELSE BigTimesPow2(BigDouble(n), e - 1)

\* n div 10 ** d, and whether n mod 10 ** d is not zero
BigDropLast(n, d) == IF Len(n) <= d THEN <<>> ELSE SubSeq(n, 1, Len(n) - d)
BigTailNonZero(n, d) == \E i \in 1..Len(n) : i > Len(n) - d /\ n[i] # 0

\* 2 ** 52, the least 53-bit mantissa
TwoTo52 == <<4, 5, 0, 3, 5, 9, 9, 6, 2, 7, 3, 7, 0, 4, 9, 6>>

\* q + r / 10 ** 6 rounded to the nearest whole number, a tie to the even
RoundHalfEven(q, r) ==
    IF r > 500000 \/ (r = 500000 /\ ~BigEven(q)) THEN BigSucc(q) ELSE q

\* The double of scaled / (10 ** 6 * 2 ** e): its 53-bit mantissa m and its
\* exponent e, the double being m / 2 ** e. Called with the millionths and
\* e = 0 it doubles until the quotient by 10 ** 6 has 53 bits.
RECURSIVE DoubleOf(_, _)
DoubleOf(scaled, e) ==
    IF BigLess(BigDropLast(scaled, 6), TwoTo52)
    THEN DoubleOf(BigDouble(scaled), e + 1)
    ELSE [m |-> RoundHalfEven(BigDropLast(scaled, 6),
                              BigSmall(SubSeq(scaled, Len(scaled) - 5,
                                              Len(scaled)))),
          e |-> e]

\* the halves of a unit of the mantissa m down to the middle between the
\* double and the one before it: the doubles below 2 ** 52 lie twice as close
HalfShift(m) == IF m = TwoTo52 THEN 2 ELSE 1

\* q1 - 1 is the whole part of a number and g - 1 a middle between two
\* doubles: the number is read as the upper double when it lies above the
\* middle, and on it when tieUp
OverMiddle(q1, g, tieUp) == BigLess(g, q1) \/ (q1 = g /\ tieUp)

\* y / 10 ** d against the middle g - 1 below a double with an even or odd
\* mantissa: round to nearest, a tie to the even mantissa
ReadsUp(y, d, g, even) ==
    OverMiddle(BigSucc(BigDropLast(y, d)), g, BigTailNonZero(y, d) \/ even)

\* float() of the number n / 10 ** d is the double dk or a greater one
AtLeastDouble(n, d, dk) ==
    ReadsUp(BigTimesPow2(n, dk.e + HalfShift(dk.m)), d,
            BigTimesPow2(dk.m, HalfShift(dk.m)), BigEven(dk.m))

\* the fraction digits are within 10 ** -12 of the next millionth: below
\* 4096 the middle under the double of a number lies within 2 ** -41 of the
\* number, so no text farther away is read as the double of the next
\* millionth
NearNext(frac) == Len(frac) >= 12 /\ \A i \in 7..12 : frac[i] = "9"

\* cut is the number whole . frac cut to millionths: one more when float()
\* reads the text as the double of the next millionth or a greater one, so
\* that the result is the greatest g with float(text) >= g / 10 ** 6
Rounded(cut, whole, frac) ==
    IF /\ NearNext(frac)
       /\ AtLeastDouble(BigOfDigits(whole \o frac), Len(frac),
                        DoubleOf(BigOfNat(cut + 1), 0))
    THEN cut + 1
    ELSE cut

\* scores of 2147 and more are held as ScoreMax
CapScore(v) == IF v >= 2147 * SCALE THEN ScoreMax ELSE v

\* the digits before the decimal point when it stands after the first
\* `point` of the digits given, without leading zeros
WholeDigits(digits, point) ==
    DropLeadingZeros(IF point <= 0 THEN <<>>
                     ELSE IF point >= Len(digits)
                          THEN digits \o Zeros(point - Len(digits))
                     ELSE SubSeq(digits, 1, point))

\* the digits after that decimal point
FracDigits(digits, point) ==
    IF point <= 0 THEN Zeros(0 - point) \o digits
    ELSE IF point >= Len(digits) THEN <<>>
    ELSE SubSeq(digits, point + 1, Len(digits))

\* the score in millionths of whole . frac, ScoreMax when out of range
MagnitudeOf(whole, frac) ==
    IF Len(whole) > 4 THEN ScoreMax
    ELSE IF DigitsVal(whole) >= 2147 THEN ScoreMax
    ELSE CapScore(Rounded(DigitsVal(whole) * SCALE + FracVal(frac, 6),
                          whole, frac))

\* the score in millionths of the decimal digits ip . fp times 10 ** ex
DecimalMagnitude(ip, fp, ex) ==
    MagnitudeOf(WholeDigits(ip \o fp, Len(ip) + ex),
                FracDigits(ip \o fp, Len(ip) + ex))

\* what float() makes of a text: ok FALSE stands for ValueError
NotFloat == [ok |-> FALSE, val |-> 0]
FloatOk(v) == [ok |-> TRUE, val |-> v]

\* a text without its sign, and whether the sign is a minus
Unsigned(s) == IF s # <<>> /\ s[1] \in {"+", "-"} THEN Tail(s) ELSE s
IsMinus(s) == s # <<>> /\ s[1] = "-"

\* the exponent the digits after e stand for, cut at cap
ExponentOfDigits(digits, minus, cap) ==
    IF ~IsDigitPart(digits) THEN NotFloat
    ELSE FloatOk(IF minus THEN 0 - ExponentVal(DropUnderscores(digits), cap)
                 ELSE ExponentVal(DropUnderscores(digits), cap))

\* the number with the digits ip before the point and fp after it, and the
\* exponent read
MantissaValue(ip, fp, exponent) ==
    IF /\ exponent.ok
       /\ ip = <<>> \/ IsDigitPart(ip)
       /\ fp = <<>> \/ IsDigitPart(fp)
       /\ Len(ip) + Len(fp) > 0
    THEN FloatOk(DecimalMagnitude(DropUnderscores(ip), DropUnderscores(fp),
                                  exponent.val))
    ELSE NotFloat

\* the number whose text was split at its first e into the parts given
NumberOfParts(parts) ==
    MantissaValue(SplitFirst(parts[1], ".")[1],
                  IF Len(SplitFirst(parts[1], ".")) = 2
                  THEN SplitFirst(parts[1], ".")[2] ELSE <<>>,
                  IF Len(parts) = 2
                  THEN ExponentOfDigits(Unsigned(parts[2]), IsMinus(parts[2]),
                                        ExponentCap + Len(parts[1]))
                  ELSE FloatOk(0))

\* float() of a text without sign, in lower case
ParseUnsigned(low) ==
    IF low \in {<<"i", "n", "f">>,
                <<"i", "n", "f", "i", "n", "i", "t", "y">>}
    THEN FloatOk(ScoreMax)
    ELSE IF low = <<"n", "a", "n">> THEN FloatOk(ScoreNaN)
    ELSE NumberOfParts(SplitFirst(low, "e"))

\* the sign in front of what was parsed; nan has none
WithSign(parsed, minus) ==
    IF parsed.ok /\ minus /\ parsed.val # ScoreNaN
    THEN FloatOk(0 - parsed.val)
    ELSE parsed

LowerFloat(s) == [i \in 1..Len(s) |-> LowerFloatChar(s[i])]

\* float(sc): [ok |-> FALSE] stands for ValueError
ParseFloat(sc) ==
    WithSign(ParseUnsigned(LowerFloat(Unsigned(Strip(sc)))),
             IsMinus(Strip(sc)))

\* ------------------------------------------------------------------------
\* Optional values: None is the empty tuple, a present value v is <<v>>
\* ------------------------------------------------------------------------
None == <<>>
Some(v) == <<v>>

\* ------------------------------------------------------------------------
\* The similarity writer's text format (scripts/build_similarity.py)
\* ------------------------------------------------------------------------
DigitChar(d) ==
    CASE d = 0 -> "0" [] d = 1 -> "1" [] d = 2 -> "2" [] d = 3 -> "3"
      [] d = 4 -> "4" [] d = 5 -> "5" [] d = 6 -> "6" [] d = 7 -> "7"
      [] d = 8 -> "8" [] d = 9 -> "9"

RECURSIVE NatDigits(_)
NatDigits(n) ==
    IF n < 10 THEN <<DigitChar(n)>>
    ELSE NatDigits(n \div 10) \o <<DigitChar(n % 10)>>

\* exactly `places` digits of n, zero-padded on the left
RECURSIVE PadDigits(_, _)
PadDigits(n, places) ==
    IF places = 0 THEN <<>>
    ELSE PadDigits(n \div 10, places - 1) \o <<DigitChar(n % 10)>>

\* The floats the writer formats are held as what f"{x:.6f}" depends on:
\* the sign bit of x and its magnitude rounded to millionths. -0.0 and a
\* negative x that rounds to zero are both [neg |-> TRUE, mag |-> 0].
\* The float of v millionths, v an integer:
FloatOf(v) == [neg |-> v < 0, mag |-> IF v < 0 THEN 0 - v ELSE v]

\* the value the float is ordered by: zero for either sign of zero
FloatValue(x) == IF x.neg THEN 0 - x.mag ELSE x.mag

\* f"{x:.6f}": the sign is printed from the sign bit, also before zero
FormatScore(x) ==
    (IF x.neg THEN <<"-">> ELSE <<>>)
    \o NatDigits(x.mag \div SCALE) \o <<".">> \o PadDigits(x.mag % SCALE, 6)

\* f"{word}:{score:.6f}"
FormatPair(pair) == pair[1] \o <<":">> \o FormatScore(pair[2])

\* ",".join(tokens)
RECURSIVE JoinComma(_)
JoinComma(tokens) ==
    IF tokens = <<>> THEN <<>>
    ELSE IF Len(tokens) = 1 THEN tokens[1]
    ELSE tokens[1] \o <<",">> \o JoinComma(Tail(tokens))

\* f"{w}\t{','.join(pairs)}\n"
FormatLine(w, pairs) ==
    w \o <<TAB>> \o JoinComma([i \in 1..Len(pairs) |-> FormatPair(pairs[i])])
      \o <<NL>>

\* the pair and the line of scores given in millionths
GridPair(pair) == FormatPair(<<pair[1], FloatOf(pair[2])>>)

GridLine(w, pairs) ==
    FormatLine(w, [i \in 1..Len(pairs) |->
                      <<pairs[i][1], FloatOf(pairs[i][2])>>])

\* ------------------------------------------------------------------------
\* Loaders (WordGameEngine._load_vocab, _build_line_index,
\* _read_similarity_row_at; the same code as backend/utils/loaders.py)
\* ------------------------------------------------------------------------
Range(f) == {f[i] : i \in DOMAIN f}

\* [t.strip().lower() for t in text.split() if t.strip()]
LoadVocab(text) ==
    LET toks == SplitWS(text)
    IN  [i \in 1..Len(toks) |-> Lower(Strip(toks[i]))]

\* fh.seek(pos); fh.readline(): the text from 0-based position pos up to and
\* including the next newline, or to the end of the file; empty at the end
ReadLineAt(text, pos) ==
    LET nls == {i \in (pos + 1)..Len(text) : text[i] = NL}
    IN  IF pos >= Len(text) THEN <<>>
        ELSE IF nls = {} THEN SubSeq(text, pos + 1, Len(text))
        ELSE SubSeq(text, pos + 1, SetMin(nls))

\* offsets[word] = pos: a later line of the same word replaces the earlier
PutOffset(offs, word, pos) ==
    [w \in (DOMAIN offs) \cup {word} |-> IF w = word THEN pos ELSE offs[w]]

RECURSIVE ScanLines(_, _, _)
ScanLines(text, pos, offs) ==
    LET line == ReadLineAt(text, pos)
        word == Strip(SplitFirst(line, TAB)[1])
    IN  IF line = <<>> THEN offs
        ELSE ScanLines(text, pos + Len(line),
                       IF word # <<>> THEN PutOffset(offs, word, pos)
                       ELSE offs)

\* word -> offset of its line
BuildLineIndex(text) == ScanLines(text, 0, <<>>)

\* the pair list parsed with break in place of continue: the first
\* malformed token ends the row
RECURSIVE ParsePairsStopAtMalformed(_)
ParsePairsStopAtMalformed(pairs) ==
    IF pairs = <<>> THEN <<>>
    ELSE LET parts == RSplitLast(pairs[1], ":")
             fl == IF Len(parts) = 2 THEN ParseFloat(parts[2])
                   ELSE [ok |-> FALSE, val |-> 0]
         IN  IF fl.ok
             THEN <<(<<parts[1], fl.val>>)>>
                  \o ParsePairsStopAtMalformed(Tail(pairs))
             ELSE <<>>

\* the parsed tokens of the pair list: rsplit(":", 1) must give two parts and
\* float() must accept the second, else the token is skipped
RECURSIVE ParsePairs(_)
ParsePairs(pairs) ==
    IF pairs = <<>> THEN <<>>
    ELSE LET parts == RSplitLast(pairs[1], ":")
             fl == IF Len(parts) = 2 THEN ParseFloat(parts[2])
                   ELSE [ok |-> FALSE, val |-> 0]
         IN  (IF fl.ok THEN <<(<<parts[1], fl.val>>)>> ELSE <<>>)
             \o ParsePairs(Tail(pairs))

\* _read_similarity_row_at: ok = FALSE stands for ValueError("Failed to read
\* line at offset")
ReadSimilarityRowAt(text, offset) ==
    LET line == ReadLineAt(text, offset)
        parts == SplitFirst(RStripNL(line), TAB)
    IN  IF line = <<>> THEN [ok |-> FALSE, row |-> <<>>]
        ELSE IF Len(parts) # 2 THEN [ok |-> TRUE, row |-> <<>>]
        ELSE IF parts[2] = <<>> THEN [ok |-> TRUE, row |-> <<>>]
        ELSE [ok |-> TRUE, row |-> ParsePairs(SplitAll(parts[2], ","))]

\* ------------------------------------------------------------------------
\* Input data: words, the files on disk, the raw request strings
\* ------------------------------------------------------------------------
dog == <<"d", "o", "g">>
cat == <<"c", "a", "t">>
pup == <<"p", "u", "p">>
cow == <<"c", "o", "w">>
rat == <<"r", "a", "t">>
owl == <<"o", "w", "l">>
yak == <<"y", "a", "k">>
fox == <<"f", "o", "x">>

\* the inputs and the steps of the writer's loop (build_similarity.py, main)
\* data["words"]
WriterWords == <<dog, cat, pup>>

\* 0.0, and -0.0 or a negative cosine that rounds to zero
PosZero == [neg |-> FALSE, mag |-> 0]
NegZero == [neg |-> TRUE, mag |-> 0]

\* the cosine values the matrix is filled with: a negative one, the two
\* zeros, one in the middle and the value of two equal directions
WriterScores ==
    {FloatOf(-120000), NegZero, PosZero, FloatOf(450000), FloatOf(SCALE)}

\* sim after np.clip: symmetric between words with an embedding, each such
\* word at 1.0 with itself; a word whose embedding is the zero vector
\* (normalize_rows leaves it zero) has a zero of either sign with every
\* word, itself included
SimMatrices ==
    {[i \in DOMAIN WriterWords |-> [j \in DOMAIN WriterWords |->
          IF i \in zeroed \/ j \in zeroed THEN zero
          ELSE IF i = j THEN FloatOf(SCALE)
          ELSE IF {i, j} = {1, 2} THEN ab
          ELSE IF {i, j} = {1, 3} THEN ac
          ELSE bc]] :
       ab \in WriterScores, ac \in WriterScores, bc \in WriterScores,
       zeroed \in SUBSET DOMAIN WriterWords, zero \in {PosZero, NegZero}}

\* row = sim[i].copy(); row[i] = -2.0, as the values the sort compares
MaskedRow(sim, i) ==
    [j \in DOMAIN sim |->
        IF j = i THEN (0 - 2) * SCALE ELSE FloatValue(sim[i][j])]

\* np.argsort(-row): every index of the row, by descending value; equal
\* values in whatever order the sort leaves them
ArgSortsDescending(row) ==
    {idx \in [DOMAIN row -> DOMAIN row] :
        /\ \A a \in DOMAIN row : \A b \in DOMAIN row :
              a # b => idx[a] # idx[b]
        /\ \A a \in DOMAIN row : \A b \in DOMAIN row :
              a < b => row[idx[a]] >= row[idx[b]]}

\* [f"{words[j]}:{sim[i][j]:.6f}" for j in idx], before formatting
WriterPairs(words, sim, i, idx) ==
    [k \in DOMAIN idx |-> <<words[idx[k]], sim[i][idx[k]]>>]

\* a writer-format file whose scores sit on and just under every hotness
\* threshold
BandsFile ==
    GridLine(dog, << <<cat, 990000>>, <<pup, 900000>>, <<cow, 750000>>,
                       <<rat, 600000>> >>)
    \o GridLine(cat, << <<dog, 989999>>, <<pup, 899999>>, <<cow, 749999>>,
                          <<rat, 599999>> >>)
    \o GridLine(pup, << <<dog, 450000>>, <<cat, 300000>>, <<cow, 150000>>,
                          <<rat, -120000>> >>)
    \o GridLine(cow, << <<dog, 449999>>, <<cat, 299999>>, <<pup, 149999>>,
                          <<rat, 0>> >>)
    \o GridLine(rat, << <<dog, 1000000>>, <<cat, 440000>>, <<pup, 310000>>,
                          <<cow, 160000>> >>)

\* an irregular file: malformed tokens ("foo:bar:0.790000", "pup"), a
\* repeated word in a row, a word with no tab (rat), a word with an empty
\* pair list (pup), a blank line, and a word that is in no vocabulary and
\* whose row is not in descending order (yak)
RaggedFile ==
    dog \o <<TAB>> \o GridPair(<<cat, 810000>>) \o <<",">>
        \o <<"f", "o", "o", ":">> \o GridPair(<<<<"b", "a", "r">>, 790000>>)
        \o <<",">> \o pup \o <<",">> \o GridPair(<<rat, 770000>>)
        \o <<",">> \o GridPair(<<cat, 100000>>) \o <<NL>>
    \o GridLine(cat, << <<dog, 810000>> >>)
    \o rat \o <<NL>>
    \o <<NL>>
    \o GridLine(pup, <<>>)
    \o GridLine(yak, << <<cat, 100000>>, <<dog, 200000>> >>)

\* a file with no word at all
BlankFile == <<NL, SP, TAB, NL>>

\* a file whose every word has an empty row: no word can serve as a target
HollowFile == pup \o <<TAB, NL>> \o rat \o <<NL>>

\* the matrix of the written file: dog-cat 0.45, dog-pup 0, cat-pup -0.12
WrittenSim ==
    CHOOSE sim \in SimMatrices :
        /\ \A i \in DOMAIN sim : sim[i][i] = FloatOf(SCALE)
        /\ sim[1][2] = FloatOf(450000)
        /\ sim[1][3] = PosZero
        /\ sim[2][3] = FloatOf(-120000)

\* the line the writer's loop makes for word i of that matrix
WrittenLine(i) ==
    FormatLine(WriterWords[i],
               WriterPairs(WriterWords, WrittenSim, i,
                           CHOOSE idx \in
                               ArgSortsDescending(MaskedRow(WrittenSim, i)) :
                               TRUE))

\* the file the writer makes of that matrix, line after line
WrittenFile == WrittenLine(1) \o WrittenLine(2) \o WrittenLine(3)

\* the vocabulary file: whitespace-separated, mixed case
NounsFile ==
    dog \o <<SP>> \o <<"C", "a", "t">> \o <<NL>> \o pup \o <<SP, SP>> \o cow
        \o <<NL>> \o rat \o <<TAB>> \o owl \o <<NL>>

\* the paths a WordGameEngine may be constructed with; Path.exists() is
\* FALSE for the missing ones
SimPaths ==
    {"bands.txt", "ragged.txt", "blank.txt", "hollow.txt", "written.txt",
     "nosuch.txt"}
NounPaths == {"nouns.txt", "nosuch.txt"}

Exists(path) == path # "nosuch.txt"

FileText(path) ==
    CASE path = "bands.txt" -> BandsFile
      [] path = "ragged.txt" -> RaggedFile
      [] path = "blank.txt" -> BlankFile
      [] path = "hollow.txt" -> HollowFile
      [] path = "written.txt" -> WrittenFile
      [] path = "nouns.txt" -> NounsFile

\* The files never change while an engine lives, so what the loaders make
\* of each file is computed once and looked up afterwards.
ReadablePaths == {p \in SimPaths : Exists(p)}

\* a function written out as a table of its values
Tabulated(f) == f @@ <<>>

\* path -> _build_line_index() of that file
IndexTable ==
    Tabulated([p \in ReadablePaths |-> Tabulated(BuildLineIndex(FileText(p)))])

\* path -> offset -> _read_similarity_row_at(offset) on that file
RowTable ==
    Tabulated([p \in ReadablePaths |->
        Tabulated([o \in Range(IndexTable[p]) |->
                      ReadSimilarityRowAt(FileText(p), o)])])

\* path -> set(_load_vocab()) of that file
VocabTable ==
    Tabulated([p \in {q \in NounPaths : Exists(q)} |->
                  Range(LoadVocab(FileText(p)))])

\* raw guesses: padded and mixed-case spellings, the empty and the blank
\* guess, a word outside the vocabulary (fox), a vocabulary word without
\* similarity data (owl), an indexed word outside the vocabulary (yak)
RawGuesses ==
    {dog, <<SP, "D", "o", "g", NL>>, cat, pup, cow, rat, owl, yak, fox,
     <<>>, <<SP, TAB>>}

\* raw explicit targets for set_target
RawTargets ==
    {<<SP, "D", "O", "G", SP>>, cat, pup, rat, <<TAB, "y", "A", "k", NL>>, owl}

\* ------------------------------------------------------------------------
\* Scoring (WordGameEngine._describe_hotness, make_guess, get_hint)
\* ------------------------------------------------------------------------
Max2(a, b) == IF a >= b THEN a ELSE b
Min2(a, b) == IF a <= b THEN a ELSE b

\* _describe_hotness with the first comparison strict: a score that sits
\* exactly on the 0.90 bound falls one band lower
DescribeHotnessStrict(s) ==
    IF s >= 990000 THEN "Correct"
    ELSE IF s > 900000 THEN "Boiling"
    ELSE IF s >= 750000 THEN "Very hot"
    ELSE IF s >= 600000 THEN "Hot"
    ELSE IF s >= 450000 THEN "Warm"
    ELSE IF s >= 300000 THEN "Cool"
    ELSE IF s >= 150000 THEN "Cold"
    ELSE "Freezing"

\* _describe_hotness(similarity_score): thresholds in millionths
DescribeHotness(s) ==
    IF s >= 990000 THEN "Correct"
    ELSE IF s >= 900000 THEN "Boiling"
    ELSE IF s >= 750000 THEN "Very hot"
    ELSE IF s >= 600000 THEN "Hot"
    ELSE IF s >= 450000 THEN "Warm"
    ELSE IF s >= 300000 THEN "Cool"
    ELSE IF s >= 150000 THEN "Cold"
    ELSE "Freezing"

\* the percentile taken over target_total instead of target_total - 1
RankPercentileAllWords(rank, total) ==
    LET total_others == Max2(1, total)
    IN  [num |-> 100 * (total_others - (rank - 1)), den |-> total_others]

\* total_others = max(1, target_total - 1);
\* percentile = 100.0 * (1.0 - (rank - 1) / total_others), as the exact
\* fraction num / den
RankPercentile(rank, total) ==
    LET total_others == Max2(1, total - 1)
    IN  [num |-> 100 * (total_others - (rank - 1)), den |-> total_others]

\* the literal percentile = 100.0 of a correct guess
FullPercentile == [num |-> 100, den |-> 1]

\* the literal sim = 1.0 of a correct guess
FullSimilarity == SCALE

\* {w: idx for idx, (w, _) in enumerate(row)}: 0-based, the last occurrence
\* of a repeated word wins
BuildPosMap(row) ==
    [w \in {row[i][1] : i \in 1..Len(row)} |->
        SetMax({i \in 1..Len(row) : row[i][1] = w}) - 1]

\* the fallback scan of make_guess: 0-based index of the first entry of the
\* row whose word is w, None when there is none
ScanRow(row, w) ==
    LET hits == {i \in 1..Len(row) : row[i][1] = w}
    IN  IF hits = {} THEN None ELSE Some(SetMin(hits) - 1)

BaseResponse(guess_norm) ==
    [guess |-> guess_norm, valid |-> FALSE, error |-> None,
     is_correct |-> None, rank |-> None, total |-> None,
     similarity |-> None, percentile |-> None, hotness |-> None]

\* the update of a ranked outcome with the key "total" left out
RankedNoTotal(base, correct, rank, total, sim, percentile, hotness) ==
    [base EXCEPT !.valid = TRUE, !.is_correct = Some(correct),
                 !.rank = Some(rank),
                 !.similarity = Some(sim), !.percentile = Some(percentile),
                 !.hotness = Some(hotness)]

\* base_response.update({...}) of a ranked outcome
Ranked(base, correct, rank, total, sim, percentile, hotness) ==
    [base EXCEPT !.valid = TRUE, !.is_correct = Some(correct),
                 !.rank = Some(rank), !.total = Some(total),
                 !.similarity = Some(sim), !.percentile = Some(percentile),
                 !.hotness = Some(hotness)]

\* the scoring of a guess with the 0-based index reported as the rank
ScoreOtherZeroBased(base, guess_norm, row, pos_map, total) ==
    LET scanned == ScanRow(row, guess_norm)
        found == guess_norm \in DOMAIN pos_map \/ scanned # None
        idx == IF guess_norm \in DOMAIN pos_map THEN pos_map[guess_norm]
               ELSE scanned[1]
        rank == idx
        sim == row[idx + 1][2]
    IN  IF ~found
        THEN [base EXCEPT !.error = Some(
               "Internal error: guess not found in target similarity list.")]
        ELSE Ranked(base, FALSE, rank, total, sim,
                    RankPercentile(rank, total), DescribeHotness(sim))

\* the scoring of a guess with "if not idx" in place of "if idx is None":
\* index 0 counts as a miss
ScoreOtherFalsyIndex(base, guess_norm, row, pos_map, total) ==
    LET scanned == ScanRow(row, guess_norm)
        hit == guess_norm \in DOMAIN pos_map \/ scanned # None
        idx == IF guess_norm \in DOMAIN pos_map THEN pos_map[guess_norm]
               ELSE IF scanned # None THEN scanned[1] ELSE 0
        found == hit /\ idx # 0
        rank == idx + 1
        sim == row[idx + 1][2]
    IN  IF ~found
        THEN [base EXCEPT !.error = Some(
               "Internal error: guess not found in target similarity list.")]
        ELSE Ranked(base, FALSE, rank, total, sim,
                    RankPercentile(rank, total), DescribeHotness(sim))

\* the guess is not the target: look it up in the map, else scan the row
ScoreOther(base, guess_norm, row, pos_map, total) ==
    LET scanned == ScanRow(row, guess_norm)
        found == guess_norm \in DOMAIN pos_map \/ scanned # None
        idx == IF guess_norm \in DOMAIN pos_map THEN pos_map[guess_norm]
               ELSE scanned[1]
        rank == idx + 1
        sim == row[idx + 1][2]
    IN  IF ~found
        THEN [base EXCEPT !.error = Some(
               "Internal error: guess not found in target similarity list.")]
        ELSE Ranked(base, FALSE, rank, total, sim,
                    RankPercentile(rank, total), DescribeHotness(sim))

\* make_guess with the index looked up before the vocabulary
GuessResultIndexFirst(guess_word, tw, row, pos_map, total, vocab, offs) ==
    LET guess_norm == Lower(Strip(guess_word))
        base == BaseResponse(guess_norm)
    IN  IF guess_norm = <<>>
        THEN [base EXCEPT !.error = Some("Empty guess.")]
        ELSE IF guess_norm \notin DOMAIN offs
        THEN [base EXCEPT !.error =
                 Some("Word is missing from similarity data.")]
        ELSE IF guess_norm \notin vocab
        THEN [base EXCEPT !.error =
                 Some("Word is not in the allowed vocabulary.")]
        ELSE IF guess_norm = tw
        THEN Ranked(base, TRUE, 1, total, FullSimilarity, FullPercentile,
                    DescribeHotness(FullSimilarity))
        ELSE ScoreOther(base, guess_norm, row, pos_map, total)

\* WordGameEngine.make_guess(guess_word) on the engine state given
GuessResult(guess_word, tw, row, pos_map, total, vocab, offs) ==
    LET guess_norm == Lower(Strip(guess_word))
        base == BaseResponse(guess_norm)
    IN  IF guess_norm = <<>>
        THEN [base EXCEPT !.error = Some("Empty guess.")]
        ELSE IF guess_norm \notin vocab
        THEN [base EXCEPT !.error =
                 Some("Word is not in the allowed vocabulary.")]
        ELSE IF guess_norm \notin DOMAIN offs
        THEN [base EXCEPT !.error =
                 Some("Word is missing from similarity data.")]
        ELSE IF guess_norm = tw
        THEN Ranked(base, TRUE, 1, total, FullSimilarity, FullPercentile,
                    DescribeHotness(FullSimilarity))
        ELSE ScoreOther(base, guess_norm, row, pos_map, total)

\* the indexes of get_hint drawn from the whole row, whatever top_n is
HintIndexesWholeRow(top_n, n_others) == 0..(n_others - 1)

\* the indexes random.randint(0, k - 1) of get_hint may draw,
\* k = min(max(top_n, 1), n_others)
HintIndexes(top_n, n_others) == 0..(Min2(Max2(top_n, 1), n_others) - 1)

\* the record get_hint returns for the drawn index
HintRecord(row, total, idx) ==
    [word |-> row[idx + 1][1], rank |-> idx + 1, total |-> total,
     similarity |-> row[idx + 1][2],
     percentile |-> RankPercentile(idx + 1, total),
     hotness |-> DescribeHotness(row[idx + 1][2])]

\* ------------------------------------------------------------------------
\* Hint Strategist (backend/actions/similar_word.py, backend/utils/hint.py,
\* backend/utils/scoring.py)
\* ------------------------------------------------------------------------
\* the band before clamping without the short-row fallback of the soft
\* window: on a row shorter than 50 the window starts at 50
RawHintBandNoFallback(n_others, best_rank, hint_strength) ==
    IF best_rank = None \/ best_rank[1] > 100
    THEN IF hint_strength = "strong"
         THEN [low |-> 1, high |-> Min2(50, n_others)]
         ELSE [low |-> 50, high |-> Min2(100, n_others)]
    ELSE LET best == Min2(best_rank[1], n_others)
         IN  IF best <= 1
             THEN [low |-> 1, high |-> Min2(5, n_others)]
             ELSE IF hint_strength = "strong"
                  THEN [low |-> 1, high |-> best - 1]
                  ELSE [low |-> Max2(1, best - Max2(5, best \div 2)),
                        high |-> best - 1]

\* the band before clamping with the soft window closed at best instead of
\* best - 1: the hint may repeat the player's best rank
RawHintBandInclusive(n_others, best_rank, hint_strength) ==
    IF best_rank = None \/ best_rank[1] > 100
    THEN IF hint_strength = "strong"
         THEN [low |-> 1, high |-> Min2(50, n_others)]
         ELSE IF 50 > n_others
              THEN [low |-> 1, high |-> Min2(20, n_others)]
              ELSE [low |-> 50, high |-> Min2(100, n_others)]
    ELSE LET best == Min2(best_rank[1], n_others)
         IN  IF best <= 1
             THEN [low |-> 1, high |-> Min2(5, n_others)]
             ELSE IF hint_strength = "strong"
                  THEN [low |-> 1, high |-> best - 1]
                  ELSE [low |-> Max2(1, best - Max2(5, best \div 2)),
                        high |-> best]

\* the band [low_rank, high_rank] before clamping
RawHintBand(n_others, best_rank, hint_strength) ==
    IF best_rank = None \/ best_rank[1] > 100
    THEN IF hint_strength = "strong"
         THEN [low |-> 1, high |-> Min2(50, n_others)]
         ELSE IF 50 > n_others
              THEN [low |-> 1, high |-> Min2(20, n_others)]
              ELSE [low |-> 50, high |-> Min2(100, n_others)]
    ELSE LET best == Min2(best_rank[1], n_others)
         IN  IF best <= 1
             THEN [low |-> 1, high |-> Min2(5, n_others)]
             ELSE IF hint_strength = "strong"
                  THEN [low |-> 1, high |-> best - 1]
                  ELSE [low |-> Max2(1, best - Max2(5, best \div 2)),
                        high |-> best - 1]

\* the band after clamping to [1, n_others] and the collapse fallback
HintBand(n_others, best_rank, hint_strength) ==
    LET raw == RawHintBand(n_others, best_rank, hint_strength)
        low == Max2(1, Min2(raw.low, n_others))
        high == Max2(1, Min2(raw.high, n_others))
    IN  IF low > high THEN [low |-> 1, high |-> Min2(20, n_others)]
        ELSE [low |-> low, high |-> high]

\* the indexes random.randint(low_rank - 1, high_rank - 1) may draw
ChooseHintIndexes(n_others, best_rank, hint_strength) ==
    LET band == HintBand(n_others, best_rank, hint_strength)
    IN  (band.low - 1)..(band.high - 1)

\* utils/scoring.py compute_percentile(rank, total)
ComputePercentile(rank, total) ==
    LET total_others == Max2(1, total - 1)
    IN  [num |-> 100 * (total_others - (rank - 1)), den |-> total_others]

\* p >= bound for the fraction p and the whole number bound
PercentileAtLeast(p, bound) == p.num >= bound * p.den

\* utils/scoring.py describe_hotness(rank, total): percentile bands
DescribeHotnessByRank(rank, total) ==
    LET percentile == ComputePercentile(rank, total)
    IN  IF rank = 1 THEN "Correct"
        ELSE IF PercentileAtLeast(percentile, 99) THEN "Boiling"
        ELSE IF PercentileAtLeast(percentile, 95) THEN "Very hot"
        ELSE IF PercentileAtLeast(percentile, 90) THEN "Hot"
        ELSE IF PercentileAtLeast(percentile, 75) THEN "Warm"
        ELSE IF PercentileAtLeast(percentile, 50) THEN "Cool"
        ELSE IF PercentileAtLeast(percentile, 25) THEN "Cold"
        ELSE "Freezing"

\* the record of get_similar_word with the 0-based index given as the rank
SimilarWordRecordZeroBased(row, total, idx) ==
    [word |-> row[idx + 1][1], rank |-> idx, total |-> total,
     similarity |-> row[idx + 1][2],
     percentile |-> ComputePercentile(idx + 1, total),
     hotness |-> DescribeHotnessByRank(idx + 1, total)]

\* the record get_similar_word returns for the drawn index
SimilarWordRecord(row, total, idx) ==
    [word |-> row[idx + 1][1], rank |-> idx + 1, total |-> total,
     similarity |-> row[idx + 1][2],
     percentile |-> ComputePercentile(idx + 1, total),
     hotness |-> DescribeHotnessByRank(idx + 1, total)]

\* ------------------------------------------------------------------------
\* Game Session state (spec.md sections 3, 4.2 to 4.5): the engine method
\* behind routes/similar_word.py, which holds best_rank_overall and
\* hint_count, is not among the source files. Every ranked guess and every
\* hint served, by get_hint as by the strategist, enters the session.
\* ------------------------------------------------------------------------
\* the number of soft hints per target (section 4.4: default 3)
SoftHintLimit == 3

\* the strengths the session may choose for the hint that follows count
\* hints of the target: section 4.4 has the first N hints soft and section 8
\* the first N - 1, so hint N is soft by the one and strong by the other
HintStrengthsFor(count) ==
    IF count < SoftHintLimit - 1 THEN {"soft"}
    ELSE IF count < SoftHintLimit THEN {"soft", "strong"}
    ELSE {"strong"}

\* what the session notes of a hint of get_hint(top_n), which takes no
\* strength
NoStrength == "none"

\* the best rank overwritten by the latest rank
UpdateBestRankLatest(best, rank) == Some(rank)

\* section 4.3 step 8: best_rank_overall = min(current, rank), unset counting
\* as +infinity
UpdateBestRank(best, rank) ==
    IF best = None THEN Some(rank) ELSE Some(Min2(best[1], rank))

\* a target selection that keeps the session state it finds
KeepSession(best, count) == [best |-> best, count |-> count]

\* section 4.2: the session state once a target is accepted, whatever it
\* was before
ResetSession(best, count) == [best |-> None, count |-> 0]

\* ------------------------------------------------------------------------
\* State
\* ------------------------------------------------------------------------
VARIABLES
    sim_path,                \* self.similarity_path
    nouns_path,              \* self.nouns_path
    engine,                  \* app.state.engine: "unset", "none" or "ready"
    vocab_set,               \* self.vocab_set
    offsets,                 \* self.offsets
    target_word,             \* self.target_word
    target_similarity_list,  \* self.target_similarity_list
    target_pos_map,          \* self.target_pos_map
    target_total,            \* self.target_total
    best_rank_overall,       \* session: best rank seen for this target
    hint_count,              \* session: hints served for this target
    last,                    \* the outcome of the last operation
    ranks_seen,              \* history: ranked results since the target changed
    strong_served,           \* history: a strong hint was served for this target
    calls                    \* per thread: the call under way and its local variables

engine_vars ==
    <<vocab_set, offsets, target_word, target_similarity_list,
      target_pos_map, target_total>>
target_vars ==
    <<target_word, target_similarity_list, target_pos_map, target_total>>
session_vars ==
    <<best_rank_overall, hint_count, ranks_seen, strong_served>>
vars ==
    <<sim_path, nouns_path, engine, engine_vars, session_vars, last,
      calls>>

\* bound on the hints served per target
MaxHints == 4
\* bound on the top_n a caller passes to get_hint (besides the default)
MaxTopN == 3
\* get_hint(top_n=10): the default, and what the /hint route passes
DefaultTopN == 10

TopNs == (0..MaxTopN) \cup {DefaultTopN}

\* the threads that call the engine: a single caller, whose calls come one
\* after the other, and two threads that call at the same time
Callers == {"A"}
Threads == {"A", "B"}

\* a thread with no call under way; of a call under way: the operation, the
\* statement reached, the argument, and the local variables guess_norm or
\* chosen or word (word), idx, sim, the target_total read for the
\* percentile (total), the row loaded from self.target_similarity_list by
\* the statement that is being evaluated (row), and the session state a
\* target selection found (prior)
Idle ==
    [op |-> "idle", at |-> "idle", arg |-> None, word |-> <<>>, idx |-> 0,
     sim |-> 0, total |-> 0, row |-> <<>>, prior |-> None]

\* the explicit targets, guesses and top_n values of the concurrent calls
ConcTargets == {None} \cup {Some(r) : r \in {cat, owl}}
ConcGuesses == {cat, <<SP, "D", "o", "g", NL>>, owl}
ConcTopNs == {DefaultTopN}

\* no call is under way: of the single caller, of the two threads
NoCall == [t \in Callers |-> Idle]
NoCalls == [t \in Threads |-> Idle]

\* what an operation left behind: its argument, how it ended ("ok" or the
\* exception raised; "running" while a set_target has not returned), what
\* it returned, and for a target selection the session state
\* <<best_rank_overall, hint_count>> it found
Outcome(op, arg, outcome, res, prior) ==
    [op |-> op, arg |-> arg, outcome |-> outcome, res |-> res,
     prior |-> prior]

\* the module is loaded and no engine has been built yet
NoEngine ==
    /\ engine = "unset"
    /\ vocab_set = {}
    /\ offsets = <<>>
    /\ target_word = <<>>
    /\ target_similarity_list = <<>>
    /\ target_pos_map = <<>>
    /\ target_total = 0
    /\ best_rank_overall = None
    /\ hint_count = 0
    /\ last = Outcome("none", None, "ok", None, None)
    /\ ranks_seen = {}
    /\ strong_served = FALSE

Init ==
    /\ sim_path \in SimPaths
    /\ nouns_path \in NounPaths
    /\ NoEngine
    /\ calls = NoCall

\* ------------------------------------------------------------------------
\* Operations
\* ------------------------------------------------------------------------
\* lines 145 to 151 of set_target as the constructor runs them, before any
\* other thread can reach the engine: store the word, read its row, derive
\* the total and the position map
LoadTarget(chosen) ==
    LET read == RowTable[sim_path][offsets'[chosen]]
    IN  /\ target_word' = chosen
        /\ IF read.ok
           THEN /\ target_similarity_list' = read.row
                /\ target_total' = Len(read.row) + 1
                /\ target_pos_map' = BuildPosMap(read.row)
           ELSE UNCHANGED <<target_similarity_list, target_total,
                            target_pos_map>>

\* the session starts over with the new target
StartSession ==
    LET fresh == ResetSession(best_rank_overall, hint_count)
    IN  /\ best_rank_overall' = fresh.best
        /\ hint_count' = fresh.count
        /\ ranks_seen' = {}
        /\ strong_served' = FALSE

\* api.startup_event: app.state.engine = WordGameEngine(), or None when the
\* constructor raises
startup_event ==
    /\ engine = "unset"
    /\ UNCHANGED <<calls, sim_path, nouns_path>>
    /\ IF ~Exists(sim_path) \/ ~Exists(nouns_path)
       THEN /\ engine' = "none"
            /\ last' = Outcome("startup", None, "FileNotFoundError", None, None)
            /\ UNCHANGED <<engine_vars, session_vars>>
       ELSE IF DOMAIN IndexTable[sim_path] = {}
       THEN /\ engine' = "none"
            /\ last' = Outcome("startup", None, "RuntimeError", None, None)
            /\ UNCHANGED <<engine_vars, session_vars>>
       ELSE /\ engine' = "ready"
            /\ vocab_set' = VocabTable[nouns_path]
            /\ offsets' = IndexTable[sim_path]
            /\ \E chosen \in DOMAIN offsets' : LoadTarget(chosen)
            /\ StartSession
            /\ last' = Outcome("startup", None, "ok", Some(target_word'),
                            Some(<<best_rank_overall, hint_count>>))

\* thread t is at statement pc of a call of op
AtStep(t, op, pc) == calls[t].op = op /\ calls[t].at = pc

\* thread t goes on with the call record given
Goto(t, call) == calls' = [calls EXCEPT ![t] = call]

\* the call of thread t ends: returns res or raises
Return(t, outcome, res) ==
    /\ last' = Outcome(calls[t].op, calls[t].arg, outcome, res, None)
    /\ calls' = [calls EXCEPT ![t] = Idle]

\* no call is under way
AtRest == \A t \in DOMAIN calls : calls[t].op = "idle"

\* the requests made of set_target, None for a random target: every raw
\* target by the single caller, those of ConcTargets by the two threads
TargetsTried ==
    IF DOMAIN calls = Threads THEN ConcTargets
    ELSE {None} \cup {Some(r) : r \in RawTargets}

\* set_target storing the word before it looks it up: a rejected word
\* stays behind as the target
set_target_store_first ==
    /\ engine = "ready"
    /\ UNCHANGED <<sim_path, nouns_path, engine, vocab_set, offsets,
                   target_similarity_list, target_pos_map, target_total>>
    /\ \E t \in DOMAIN calls, req \in TargetsTried :
         /\ calls[t].op = "idle"
         /\ IF req # None /\ Lower(Strip(req[1])) \notin DOMAIN offsets
            THEN /\ last' = Outcome("set_target", req, "ValueError", None,
                                 Some(<<best_rank_overall, hint_count>>))
                 /\ target_word' = Lower(Strip(req[1]))
                 /\ UNCHANGED <<calls, session_vars>>
            ELSE /\ \E chosen \in (IF req = None THEN DOMAIN offsets
                                   ELSE {Lower(Strip(req[1]))}) :
                      /\ target_word' = chosen
                      /\ Goto(t, [Idle EXCEPT !.op = "set_target",
                                      !.at = "read", !.arg = req,
                                      !.word = chosen,
                                      !.prior = Some(<<best_rank_overall,
                                                       hint_count>>)])
                 /\ StartSession
                 /\ last' = Outcome("set_target", req, "running", None, None)

\* set_target lines 135 to 145: the word is looked up or drawn, and stored;
\* req is None for a random target. The session starts over as the target
\* changes.
set_target_store ==
    /\ engine = "ready"
    /\ UNCHANGED <<sim_path, nouns_path, engine, vocab_set, offsets,
                   target_similarity_list, target_pos_map, target_total>>
    /\ \E t \in DOMAIN calls, req \in TargetsTried :
         /\ calls[t].op = "idle"
         /\ IF req # None /\ Lower(Strip(req[1])) \notin DOMAIN offsets
            THEN /\ last' = Outcome("set_target", req, "ValueError", None,
                                 Some(<<best_rank_overall, hint_count>>))
                 /\ UNCHANGED <<target_word, calls, session_vars>>
            ELSE /\ \E chosen \in (IF req = None THEN DOMAIN offsets
                                   ELSE {Lower(Strip(req[1]))}) :
                      /\ target_word' = chosen
                      /\ Goto(t, [Idle EXCEPT !.op = "set_target",
                                      !.at = "read", !.arg = req,
                                      !.word = chosen,
                                      !.prior = Some(<<best_rank_overall,
                                                       hint_count>>)])
                 /\ StartSession
                 /\ last' = Outcome("set_target", req, "running", None, None)

\* set_target reading without the seek: the row of the first line of the
\* file, whatever word was chosen
set_target_read_first_line ==
    /\ UNCHANGED <<sim_path, nouns_path, engine, vocab_set, offsets,
                   target_word, target_pos_map, target_total, session_vars,
                   last>>
    /\ \E t \in DOMAIN calls :
         /\ AtStep(t, "set_target", "read")
         /\ target_similarity_list' = RowTable[sim_path][0].row
         /\ Goto(t, [calls[t] EXCEPT !.at = "total_load"])

\* set_target lines 147 and 148: the row of the local word chosen is read
\* from the file and stored
set_target_read ==
    /\ UNCHANGED <<sim_path, nouns_path, engine, vocab_set, offsets,
                   target_word, target_pos_map, target_total, session_vars,
                   last>>
    /\ \E t \in DOMAIN calls :
         /\ AtStep(t, "set_target", "read")
         /\ target_similarity_list' =
                RowTable[sim_path][offsets[calls[t].word]].row
         /\ Goto(t, [calls[t] EXCEPT !.at = "total_load"])

\* set_target line 149, right-hand side: the row the engine holds is loaded
set_target_total_load ==
    /\ UNCHANGED <<sim_path, nouns_path, engine, engine_vars, session_vars,
                   last>>
    /\ \E t \in DOMAIN calls :
         /\ AtStep(t, "set_target", "total_load")
         /\ Goto(t, [calls[t] EXCEPT !.at = "total",
                                     !.row = target_similarity_list])

\* set_target line 149, the store: target_total from the row loaded
set_target_total ==
    /\ UNCHANGED <<sim_path, nouns_path, engine, vocab_set, offsets,
                   target_word, target_similarity_list, target_pos_map,
                   session_vars, last>>
    /\ \E t \in DOMAIN calls :
         /\ AtStep(t, "set_target", "total")
         /\ target_total' = Len(calls[t].row) + 1
         /\ Goto(t, [calls[t] EXCEPT !.at = "map_load", !.row = <<>>])

\* set_target line 151, right-hand side: the row the engine holds is loaded
\* for the comprehension to loop over
set_target_map_load ==
    /\ UNCHANGED <<sim_path, nouns_path, engine, engine_vars, session_vars,
                   last>>
    /\ \E t \in DOMAIN calls :
         /\ AtStep(t, "set_target", "map_load")
         /\ Goto(t, [calls[t] EXCEPT !.at = "map",
                                     !.row = target_similarity_list])

\* set_target without the store of line 151: the position map of the
\* target before stays behind
set_target_map_stale ==
    /\ UNCHANGED <<sim_path, nouns_path, engine, engine_vars, session_vars,
                   last>>
    /\ \E t \in DOMAIN calls :
         /\ AtStep(t, "set_target", "map")
         /\ Goto(t, [calls[t] EXCEPT !.at = "return", !.row = <<>>])

\* set_target line 151, the store: the position map of the row loaded
set_target_map ==
    /\ UNCHANGED <<sim_path, nouns_path, engine, vocab_set, offsets,
                   target_word, target_similarity_list, target_total,
                   session_vars, last>>
    /\ \E t \in DOMAIN calls :
         /\ AtStep(t, "set_target", "map")
         /\ target_pos_map' = BuildPosMap(calls[t].row)
         /\ Goto(t, [calls[t] EXCEPT !.at = "return", !.row = <<>>])

\* set_target line 153: return self.target_word
set_target_return ==
    /\ UNCHANGED <<sim_path, nouns_path, engine, engine_vars, session_vars>>
    /\ \E t \in DOMAIN calls :
         /\ AtStep(t, "set_target", "return")
         /\ last' = Outcome("set_target", calls[t].arg, "ok",
                            Some(target_word), calls[t].prior)
         /\ calls' = [calls EXCEPT ![t] = Idle]

\* a ranked result enters the session: best rank and history
NoteRank(rank, percentile) ==
    /\ best_rank_overall' = UpdateBestRank(best_rank_overall, rank)
    /\ ranks_seen' = ranks_seen \cup {[rank |-> rank, percentile |-> percentile]}

\* WordGameEngine.make_guess(guess_word)
make_guess ==
    /\ engine = "ready"
    /\ AtRest
    /\ UNCHANGED <<calls, sim_path, nouns_path, engine, engine_vars>>
    /\ \E raw \in RawGuesses :
         LET res == GuessResult(raw, target_word, target_similarity_list,
                                target_pos_map, target_total, vocab_set,
                                offsets)
         IN  /\ last' = Outcome("make_guess", raw, "ok", res, None)
             /\ IF res.valid
                THEN NoteRank(res.rank[1], res.percentile[1])
                ELSE UNCHANGED <<best_rank_overall, ranks_seen>>
             /\ UNCHANGED <<hint_count, strong_served>>

\* WordGameEngine.get_hint(top_n)
get_hint ==
    /\ engine = "ready"
    /\ AtRest
    /\ hint_count < MaxHints
    /\ UNCHANGED <<calls, sim_path, nouns_path, engine, engine_vars>>
    /\ \E top_n \in TopNs :
         IF target_similarity_list = <<>>
         THEN /\ last' = Outcome("get_hint", top_n, "RuntimeError", None,
                                 None)
              /\ UNCHANGED session_vars
         ELSE \E idx \in HintIndexes(top_n, Len(target_similarity_list)) :
                LET res == HintRecord(target_similarity_list, target_total,
                                      idx)
                IN  /\ last' = Outcome("get_hint", top_n, "ok", res, None)
                    /\ hint_count' = hint_count + 1
                    /\ UNCHANGED strong_served
                    /\ NoteRank(res.rank, res.percentile)

\* the session's strategist hint: get_similar_word with the session's best
\* rank and a strength its hint count allows
get_similar_word ==
    /\ engine = "ready"
    /\ AtRest
    /\ hint_count < MaxHints
    /\ UNCHANGED <<calls, sim_path, nouns_path, engine, engine_vars>>
    /\ \E strength \in HintStrengthsFor(hint_count) :
       LET n_others == Len(target_similarity_list)
       IN  IF target_similarity_list = <<>>
           THEN /\ last' = Outcome("get_similar_word", strength,
                                   "RuntimeError", None, None)
                /\ UNCHANGED session_vars
           ELSE \E idx \in ChooseHintIndexes(n_others, best_rank_overall,
                                             strength) :
                  LET res == SimilarWordRecord(target_similarity_list,
                                               target_total, idx)
                  IN  /\ last' = Outcome("get_similar_word", strength, "ok",
                                         res, None)
                      /\ hint_count' = hint_count + 1
                      /\ strong_served' =
                             (strong_served \/ strength = "strong")
                      /\ NoteRank(res.rank, res.percentile)

\* actions/guess.py make_guess on the engine's fields: the checks and the
\* lookup of WordGameEngine.make_guess, but the hotness asked of
\* utils/scoring.describe_hotness(rank, total) with the similarity alone,
\* which raises TypeError; only the rejected guesses return a record
ActionGuessResult(guess_word, tw, row, pos_map, total, vocab, offs) ==
    LET checked == GuessResult(guess_word, tw, row, pos_map, total, vocab,
                               offs)
    IN  IF checked.valid THEN [outcome |-> "TypeError", res |-> None]
        ELSE [outcome |-> "ok", res |-> checked]

actions_make_guess ==
    /\ engine = "ready"
    /\ AtRest
    /\ UNCHANGED <<calls, sim_path, nouns_path, engine, engine_vars, session_vars>>
    /\ \E raw \in RawGuesses :
         LET done == ActionGuessResult(raw, target_word,
                                       target_similarity_list, target_pos_map,
                                       target_total, vocab_set, offsets)
         IN  last' = Outcome("actions_make_guess", raw, done.outcome,
                             done.res, None)

\* WordGameEngine.get_answer() (the /quit route)
get_answer ==
    /\ engine = "ready"
    /\ AtRest
    /\ UNCHANGED <<calls, sim_path, nouns_path, engine, engine_vars, session_vars>>
    /\ last' = Outcome("get_answer", None, "ok", Some(target_word), None)

\* the routes that depend on get_engine
EngineRoutes == {"guess", "hint", "quit"}

\* dependencies.get_engine with app.state.engine None or never set: the
\* request ends in HTTPException(500, "Game engine not initialized.")
get_engine_rejects ==
    /\ engine # "ready"
    /\ UNCHANGED <<calls, sim_path, nouns_path, engine, engine_vars,
                   session_vars>>
    /\ \E route \in EngineRoutes :
         last' = Outcome(route, None, "HTTPException", Some(500), None)

\* routes/health.py: status and target_word_loaded look at the engine only
HealthResponse(state) ==
    [status |-> IF state = "ready" THEN "ok" ELSE "degraded",
     target_word_loaded |-> state = "ready"]

health ==
    /\ AtRest
    /\ UNCHANGED <<calls, sim_path, nouns_path, engine, engine_vars,
                   session_vars>>
    /\ last' = Outcome("health", None, "ok", HealthResponse(engine), None)

Next ==
    \/ startup_event
    \/ set_target_store
    \/ set_target_read
    \/ set_target_total_load
    \/ set_target_total
    \/ set_target_map_load
    \/ set_target_map
    \/ set_target_return
    \/ make_guess
    \/ get_hint
    \/ get_similar_word
    \/ get_answer
    \/ actions_make_guess
    \/ get_engine_rejects
    \/ health

Spec == Init /\ [][Next]_vars

\* ------------------------------------------------------------------------
\* Concurrent calls on one engine: the routes are plain functions, which the
\* server runs on worker threads, and the engine holds no lock, so a thread
\* switch can fall between any two statements of set_target, make_guess and
\* get_hint. Each thread runs one call at a time; a step is taken at every
\* read and at every write of a field set_target assigns (vocab_set and
\* offsets are assigned by the constructor alone). No guess and no hint of
\* these calls enters the session of the strategist.
\* ------------------------------------------------------------------------
\* make_guess lines 201 to 229: the early returns, and the comparison with
\* the target word
make_guess_compare ==
    /\ engine = "ready"
    /\ UNCHANGED <<sim_path, nouns_path, engine, engine_vars, session_vars>>
    /\ \E t \in DOMAIN calls, raw \in ConcGuesses :
         LET guess_norm == Lower(Strip(raw))
             begun == [Idle EXCEPT !.op = "make_guess", !.arg = raw,
                                   !.word = guess_norm]
         IN  /\ calls[t].op = "idle"
             /\ IF \/ guess_norm = <<>>
                   \/ guess_norm \notin vocab_set
                   \/ guess_norm \notin DOMAIN offsets
                THEN /\ last' = Outcome("make_guess", raw, "ok",
                                   GuessResult(raw, target_word,
                                       target_similarity_list, target_pos_map,
                                       target_total, vocab_set, offsets),
                                   None)
                     /\ UNCHANGED calls
                ELSE /\ Goto(t, [begun EXCEPT !.at =
                            IF guess_norm = target_word THEN "correct"
                            ELSE "member"])
                     /\ UNCHANGED last

\* make_guess lines 230 to 245: the correct guess, its total read at 239
make_guess_correct ==
    /\ UNCHANGED <<sim_path, nouns_path, engine, engine_vars, session_vars>>
    /\ \E t \in DOMAIN calls :
         /\ AtStep(t, "make_guess", "correct")
         /\ Return(t, "ok",
                   Ranked(BaseResponse(calls[t].word), TRUE, 1, target_total,
                          FullSimilarity, FullPercentile,
                          DescribeHotness(FullSimilarity)))

\* make_guess line 247: is the guess a key of the position map
make_guess_member ==
    /\ UNCHANGED <<sim_path, nouns_path, engine, engine_vars, session_vars,
                   last>>
    /\ \E t \in DOMAIN calls :
         /\ AtStep(t, "make_guess", "member")
         /\ Goto(t, [calls[t] EXCEPT !.at =
                IF calls[t].word \in DOMAIN target_pos_map THEN "lookup"
                ELSE "scan"])

\* make_guess line 248: idx = self.target_pos_map[guess_norm]
make_guess_lookup ==
    /\ UNCHANGED <<sim_path, nouns_path, engine, engine_vars, session_vars>>
    /\ \E t \in DOMAIN calls :
         /\ AtStep(t, "make_guess", "lookup")
         /\ IF calls[t].word \notin DOMAIN target_pos_map
            THEN Return(t, "KeyError", None)
            ELSE /\ Goto(t, [calls[t] EXCEPT !.at = "entry",
                                !.idx = target_pos_map[calls[t].word]])
                 /\ UNCHANGED last

\* make_guess lines 249 and 250: sim = self.target_similarity_list[idx][1]
make_guess_entry ==
    /\ UNCHANGED <<sim_path, nouns_path, engine, engine_vars, session_vars>>
    /\ \E t \in DOMAIN calls :
         /\ AtStep(t, "make_guess", "entry")
         /\ IF calls[t].idx >= Len(target_similarity_list)
            THEN Return(t, "IndexError", None)
            ELSE /\ Goto(t, [calls[t] EXCEPT !.at = "others",
                        !.sim = target_similarity_list[calls[t].idx + 1][2]])
                 /\ UNCHANGED last

\* make_guess lines 251 to 263: the scan of the row the engine holds
make_guess_scan ==
    /\ UNCHANGED <<sim_path, nouns_path, engine, engine_vars, session_vars>>
    /\ \E t \in DOMAIN calls :
         LET scanned == ScanRow(target_similarity_list, calls[t].word)
         IN  /\ AtStep(t, "make_guess", "scan")
             /\ IF scanned = None
                THEN Return(t, "ok",
                        [BaseResponse(calls[t].word) EXCEPT !.error = Some(
                  "Internal error: guess not found in target similarity list.")])
                ELSE /\ Goto(t, [calls[t] EXCEPT !.at = "others",
                            !.idx = scanned[1],
                            !.sim = target_similarity_list[scanned[1] + 1][2]])
                     /\ UNCHANGED last

\* make_guess line 265: target_total read for the percentile
make_guess_others ==
    /\ UNCHANGED <<sim_path, nouns_path, engine, engine_vars, session_vars,
                   last>>
    /\ \E t \in DOMAIN calls :
         /\ AtStep(t, "make_guess", "others")
         /\ Goto(t, [calls[t] EXCEPT !.at = "total", !.total = target_total])

\* make_guess lines 266 to 279: target_total read again for "total" at
\* line 273, and the record returned
make_guess_total ==
    /\ UNCHANGED <<sim_path, nouns_path, engine, engine_vars, session_vars>>
    /\ \E t \in DOMAIN calls :
         /\ AtStep(t, "make_guess", "total")
         /\ Return(t, "ok",
                   Ranked(BaseResponse(calls[t].word), FALSE,
                          calls[t].idx + 1, target_total, calls[t].sim,
                          RankPercentile(calls[t].idx + 1, calls[t].total),
                          DescribeHotness(calls[t].sim)))

\* get_hint lines 177 and 178: the row must not be empty
get_hint_check ==
    /\ engine = "ready"
    /\ UNCHANGED <<sim_path, nouns_path, engine, engine_vars, session_vars>>
    /\ \E t \in DOMAIN calls, top_n \in ConcTopNs :
         /\ calls[t].op = "idle"
         /\ IF target_similarity_list = <<>>
            THEN /\ last' = Outcome("get_hint", top_n, "RuntimeError", None,
                                    None)
                 /\ UNCHANGED calls
            ELSE /\ Goto(t, [Idle EXCEPT !.op = "get_hint", !.at = "draw",
                                         !.arg = top_n])
                 /\ UNCHANGED last

\* get_hint lines 180 to 183: the length of the row, and the index drawn;
\* random.randint(0, -1) on a row found empty raises ValueError
get_hint_draw ==
    /\ UNCHANGED <<sim_path, nouns_path, engine, engine_vars, session_vars>>
    /\ \E t \in DOMAIN calls :
         LET drawable == HintIndexes(calls[t].arg,
                                     Len(target_similarity_list))
         IN  /\ AtStep(t, "get_hint", "draw")
             /\ IF drawable = {}
                THEN Return(t, "ValueError", None)
                ELSE /\ \E idx \in drawable :
                          Goto(t, [calls[t] EXCEPT !.at = "entry",
                                                   !.idx = idx])
                     /\ UNCHANGED last

\* get_hint lines 184 and 185: word, sim = self.target_similarity_list[idx]
get_hint_entry ==
    /\ UNCHANGED <<sim_path, nouns_path, engine, engine_vars, session_vars>>
    /\ \E t \in DOMAIN calls :
         /\ AtStep(t, "get_hint", "entry")
         /\ IF calls[t].idx >= Len(target_similarity_list)
            THEN Return(t, "IndexError", None)
            ELSE /\ Goto(t, [calls[t] EXCEPT !.at = "others",
                        !.word = target_similarity_list[calls[t].idx + 1][1],
                        !.sim = target_similarity_list[calls[t].idx + 1][2]])
                 /\ UNCHANGED last

\* get_hint line 187: target_total read for the percentile
get_hint_others ==
    /\ UNCHANGED <<sim_path, nouns_path, engine, engine_vars, session_vars,
                   last>>
    /\ \E t \in DOMAIN calls :
         /\ AtStep(t, "get_hint", "others")
         /\ Goto(t, [calls[t] EXCEPT !.at = "total", !.total = target_total])

\* get_hint lines 188 to 198: target_total read again for "total" at line
\* 194, and the record returned
get_hint_total ==
    /\ UNCHANGED <<sim_path, nouns_path, engine, engine_vars, session_vars>>
    /\ \E t \in DOMAIN calls :
         /\ AtStep(t, "get_hint", "total")
         /\ Return(t, "ok",
                   [word |-> calls[t].word, rank |-> calls[t].idx + 1,
                    total |-> target_total, similarity |-> calls[t].sim,
                    percentile |-> RankPercentile(calls[t].idx + 1,
                                                  calls[t].total),
                    hotness |-> DescribeHotness(calls[t].sim)])

\* one similarity file, with rows of different lengths, and one vocabulary
ConcInit ==
    /\ sim_path = "ragged.txt"
    /\ nouns_path = "nouns.txt"
    /\ NoEngine
    /\ calls = NoCalls

ConcNext ==
    \/ startup_event
    \/ set_target_store
    \/ set_target_read
    \/ set_target_total_load
    \/ set_target_total
    \/ set_target_map_load
    \/ set_target_map
    \/ set_target_return
    \/ make_guess_compare
    \/ make_guess_correct
    \/ make_guess_member
    \/ make_guess_lookup
    \/ make_guess_entry
    \/ make_guess_scan
    \/ make_guess_others
    \/ make_guess_total
    \/ get_hint_check
    \/ get_hint_draw
    \/ get_hint_entry
    \/ get_hint_others
    \/ get_hint_total

SpecConc == ConcInit /\ [][ConcNext]_vars

\* ------------------------------------------------------------------------
\* The Hint Strategist as a function of its arguments
\* (actions/similar_word.py get_similar_word called directly)
\* ------------------------------------------------------------------------
\* the constants the bands compare with: 5, 20, 50 and 100
BandLimits == {5, 20, 50, 100}

\* bound on the row lengths and best ranks tried one by one
MaxSmallOthers == 8

\* how far around each band limit the row lengths and best ranks go
LimitMargin == 2

NearLimits ==
    {k + d : k \in BandLimits, d \in (0 - LimitMargin)..LimitMargin}

\* the row lengths n_others tried
HintSizes == (1..MaxSmallOthers) \cup NearLimits

\* the values of best_rank_overall tried, beside None: they include ranks
\* above n_others and above 100
HintBests == (1..MaxSmallOthers) \cup NearLimits \cup {150}

\* a row of n entries in descending order of score
SyntheticRow(n) ==
    [i \in 1..n |-> << <<"w">> \o NatDigits(i), SCALE - 1000 * i >>]

\* the arguments of the call: a row, target_total and best_rank_overall
HintInit ==
    /\ sim_path = "nosuch.txt"
    /\ nouns_path = "nosuch.txt"
    /\ engine = "unset"
    /\ vocab_set = {}
    /\ offsets = <<>>
    /\ target_word = <<>>
    /\ \E n \in HintSizes :
         /\ target_similarity_list = SyntheticRow(n)
         /\ target_total = n + 1
    /\ target_pos_map = <<>>
    /\ best_rank_overall \in {None} \cup {Some(b) : b \in HintBests}
    /\ hint_count = 0
    /\ last = Outcome("none", None, "ok", None, None)
    /\ ranks_seen = {}
    /\ strong_served = FALSE
    /\ calls = NoCall

\* get_similar_word(target_similarity_list, target_total,
\* best_rank_overall, hint_strength), called once on the arguments
choose_hint ==
    /\ last.op = "none"
    /\ UNCHANGED <<calls, sim_path, nouns_path, engine, engine_vars, session_vars>>
    /\ \E strength \in {"soft", "strong"} :
         \E idx \in ChooseHintIndexes(Len(target_similarity_list),
                                      best_rank_overall, strength) :
            last' = Outcome("choose_hint", strength, "ok",
                            SimilarWordRecord(target_similarity_list,
                                              target_total, idx), None)

HintNext == choose_hint

SpecHint == HintInit /\ [][HintNext]_vars

\* ------------------------------------------------------------------------
\* The row reader as a function of the line it reads
\* (WordGameEngine._read_similarity_row_at, utils/loaders.read_similarity_row)
\* ------------------------------------------------------------------------
\* the tokens a pair list is made of: well-formed pairs, a negative and a
\* padded score, a word with a colon in it, tokens with no colon, with no
\* score, with no word, with a score that is no number, scores in exponent
\* notation, nan, inf and one with seventeen decimals, and the empty token
TokenPool ==
    { <<"c", "a", "t", ":", "0", ".", "8", "1">>,
      <<"r", "a", "t", ":", "-", "0", ".", "2", "5">>,
      <<"c", "o", "w", ":", SP, "1">>,
      <<"f", "o", "o", ":", "b", "a", "r", ":", "0", ".", "5">>,
      <<"f", "o", "o">>,
      <<"f", "o", "o", ":", "b", "a", "r">>,
      <<"p", "u", "p", ":">>,
      <<":", ".", "5">>,
      <<"y", "a", "k", ":", "0", ".", "5", ".", "1">>,
      <<"o", "w", "l", ":", "1", "e", "-", "1">>,
      <<"y", "a", "k", ":", "n", "a", "n">>,
      <<"f", "o", "x", ":", "-", "I", "N", "F">>,
      <<"p", "u", "p", ":", "0", ".", "9", "8", "9", "9", "9", "9", "9", "9",
        "9", "9", "9", "9", "9", "9", "9", "9", "9", "9", "9">>,
      <<>> }

\* bound on the number of tokens of a line
MaxTokens == 3

RECURSIVE TokenSeqs(_)
TokenSeqs(n) ==
    IF n = 0 THEN {<<>>}
    ELSE LET shorter == TokenSeqs(n - 1)
         IN  shorter \cup {Append(ts, t) : ts \in {x \in shorter : Len(x) = n - 1},
                                           t \in TokenPool}

\* a file of two lines: a word without a row, then the word whose pair list
\* is made of the tokens
TokenFile(tokens) ==
    cat \o <<NL>> \o dog \o <<TAB>> \o JoinComma(tokens) \o <<NL>>

\* no call made yet
RowInit ==
    /\ sim_path = "nosuch.txt"
    /\ nouns_path = "nosuch.txt"
    /\ engine = "unset"
    /\ vocab_set = {}
    /\ offsets = <<>>
    /\ target_word = <<>>
    /\ target_similarity_list = <<>>
    /\ target_pos_map = <<>>
    /\ target_total = 0
    /\ best_rank_overall = None
    /\ hint_count = 0
    /\ last = Outcome("none", None, "ok", None, None)
    /\ ranks_seen = {}
    /\ strong_served = FALSE
    /\ calls = NoCall

\* _read_similarity_row_at(offset) on the second line of a file
read_row ==
    /\ last.op = "none"
    /\ UNCHANGED <<calls, sim_path, nouns_path, engine, engine_vars, session_vars>>
    /\ \E tokens \in TokenSeqs(MaxTokens) :
         LET text == TokenFile(tokens)
             read == ReadSimilarityRowAt(text, BuildLineIndex(text)[dog])
         IN  last' = Outcome("read_row", tokens,
                             IF read.ok THEN "ok" ELSE "ValueError",
                             Some(read.row), None)

RowNext == read_row

SpecRow == RowInit /\ [][RowNext]_vars

\* ------------------------------------------------------------------------
\* The similarity writer as a function of the similarity matrix
\* (scripts/build_similarity.py, main, lines 48 to 54)
\* ------------------------------------------------------------------------
\* nothing written yet
WriterInit == RowInit

\* one turn of the loop of main: the line of word i
write_row ==
    /\ last.op = "none"
    /\ UNCHANGED <<calls, sim_path, nouns_path, engine, engine_vars,
                   session_vars>>
    /\ \E sim \in SimMatrices : \E i \in DOMAIN WriterWords :
         \E idx \in ArgSortsDescending(MaskedRow(sim, i)) :
           last' = Outcome("write_row", [sim |-> sim, i |-> i], "ok",
                           FormatLine(WriterWords[i],
                                      WriterPairs(WriterWords, sim, i, idx)),
                           None)

WriterNext == write_row

SpecWriter == WriterInit /\ [][WriterNext]_vars

\* ------------------------------------------------------------------------
\* Properties
\* ------------------------------------------------------------------------
Guessed == last.op = "make_guess"

\* the letters str.lower changes
UpperChars == {"A", "C", "D", "G", "O", "T"}

\* g is raw with the surrounding whitespace cut off and no capital left
NormalizedFrom(raw, g) ==
    \E a \in 1..(Len(raw) + 1) : \E b \in 0..Len(raw) :
        /\ Len(g) = b - a + 1
        /\ \A k \in 1..(a - 1) : IsSpace(raw[k])
        /\ \A k \in (b + 1)..Len(raw) : IsSpace(raw[k])
        /\ g # <<>> => ~IsSpace(raw[a]) /\ ~IsSpace(raw[b])
        /\ \A k \in 1..Len(g) :
             /\ g[k] \notin UpperChars
             /\ \/ g[k] = raw[a + k - 1]
                \/ raw[a + k - 1] \in UpperChars /\ g[k] = LowerChar(raw[a + k - 1])

\* the target's row holds the word w
InRow(w) ==
    \E i \in 1..Len(target_similarity_list) :
        target_similarity_list[i][1] = w

\* p is the fraction 100 / 1
IsHundred(p) == p.num = 100 * p.den

\* C1: a guess whose normalized form is the current target, when the target
\* is in the similarity index and its row is non-empty, is answered with
\* the correct record: valid, no error, is_correct, rank 1, total
\* 1 + len(row), similarity 1.0, percentile 100 and hotness "Correct".
C1_SelfGuessIsCorrect ==
    (/\ Guessed
     /\ last.res.guess = target_word
     /\ target_word \in DOMAIN offsets
     /\ target_similarity_list # <<>>)
    => /\ last.res.valid
       /\ last.res.error = None
       /\ last.res.is_correct = Some(TRUE)
       /\ last.res.rank = Some(1)
       /\ last.res.total = Some(1 + Len(target_similarity_list))
       /\ last.res.similarity = Some(SCALE)
       /\ last.res.percentile # None /\ IsHundred(last.res.percentile[1])
       /\ last.res.hotness = Some("Correct")

\* C2: make_guess trims and lower-cases the raw guess and then checks, in
\* this order whatever the target is: empty gives "Empty guess.", a word
\* outside the vocabulary gives "Word is not in the allowed vocabulary.",
\* a vocabulary word outside the index gives "Word is missing from
\* similarity data."; each of them is an invalid result.
C2_ValidationOrder ==
    Guessed =>
      LET g == last.res.guess
          rejected(msg) == ~last.res.valid /\ last.res.error = Some(msg)
      IN  /\ NormalizedFrom(last.arg, g)
          /\ g = <<>> => rejected("Empty guess.")
          /\ (g # <<>> /\ g \notin vocab_set)
               => rejected("Word is not in the allowed vocabulary.")
          /\ (g # <<>> /\ g \in vocab_set /\ g \notin DOMAIN offsets)
               => rejected("Word is missing from similarity data.")

\* C2 at its last check: a vocabulary word that has no line in the index,
\* guessed while a target with a non-empty row is set
C2_Witness ==
    /\ Guessed
    /\ last.res.guess = owl
    /\ owl \in vocab_set /\ owl \notin DOMAIN offsets
    /\ target_similarity_list # <<>>
    /\ last.res.error = Some("Word is missing from similarity data.")

\* C3: a valid guess that is not the target has rank 1 + its 0-based index
\* in the target's row, and its similarity is the score stored at that
\* index.
C3_RankIsIndexPlusOne ==
    (Guessed /\ last.res.valid /\ last.res.guess # target_word) =>
      LET idx == last.res.rank[1] - 1
      IN  /\ idx \in 0..(Len(target_similarity_list) - 1)
          /\ target_similarity_list[idx + 1][1] = last.res.guess
          /\ last.res.similarity = Some(target_similarity_list[idx + 1][2])
          /\ last.res.is_correct = Some(FALSE)

\* C3 on a guess found below the top of the row
C3_Witness ==
    /\ Guessed /\ last.res.valid /\ last.res.guess # target_word
    /\ last.res.rank = Some(3)
    /\ target_similarity_list[3][1] = last.res.guess

\* a target selection is under way
Selecting == \E t \in DOMAIN calls : calls[t].op = "set_target"

\* C4: while the target stays, the percentile of a ranked result is
\* 100 * (1 - (rank - 1) / max(1, target_total - 1)): it is 100 at rank 1
\* and strictly smaller at every larger rank of the same target.
C4_PercentileFormula ==
    LET others == IF target_total - 1 > 1 THEN target_total - 1 ELSE 1
    IN  ~Selecting =>
        /\ \A e \in ranks_seen :
             /\ e.rank \in 1..others
             /\ e.percentile.den > 0
             /\ e.percentile.num * others
                  = 100 * (others - (e.rank - 1)) * e.percentile.den
             /\ e.rank = 1 => IsHundred(e.percentile)
        /\ \A e1, e2 \in ranks_seen :
             e1.rank < e2.rank =>
               e1.percentile.num * e2.percentile.den
                 > e2.percentile.num * e1.percentile.den

\* C4 on a target for which rank 1 and two larger ranks have been scored
C4_Witness ==
    /\ \E e \in ranks_seen : e.rank = 1
    /\ \E e1, e2 \in ranks_seen : 1 < e1.rank /\ e1.rank < e2.rank
    /\ Guessed /\ last.res.valid /\ last.res.rank[1] > 1

\* the bands of section 4.3, from the hottest down: lower bound and label
HotnessBands ==
    << <<990000, "Correct">>, <<900000, "Boiling">>, <<750000, "Very hot">>,
       <<600000, "Hot">>, <<450000, "Warm">>, <<300000, "Cool">>,
       <<150000, "Cold">> >>

\* the label of the first band whose bound the score reaches
BandLabel(score) ==
    LET reached == {i \in 1..Len(HotnessBands) : score >= HotnessBands[i][1]}
    IN  IF reached = {} THEN "Freezing"
        ELSE HotnessBands[CHOOSE i \in reached : \A j \in reached : i <= j][2]

\* C5: the hotness of a scored guess is the one label its similarity s
\* selects: s >= 0.99 Correct, >= 0.90 Boiling, >= 0.75 Very hot, >= 0.60
\* Hot, >= 0.45 Warm, >= 0.30 Cool, >= 0.15 Cold, otherwise Freezing.
C5_HotnessBands ==
    (Guessed /\ last.res.valid) =>
        last.res.hotness = Some(BandLabel(last.res.similarity[1]))

\* C5 on a score that sits exactly on a bound: 0.90 is Boiling
C5_Witness ==
    /\ Guessed /\ last.res.valid
    /\ last.res.similarity = Some(900000)
    /\ last.res.hotness = Some("Boiling")

\* C6: every guess whose normalized form is in the vocabulary and in the
\* similarity index is answered valid with a rank.
C6_KnownWordIsRanked ==
    (/\ Guessed
     /\ last.res.guess \in vocab_set
     /\ last.res.guess \in DOMAIN offsets)
    => last.res.valid /\ last.res.rank # None

\* C6 as the engine has it: a guess in the vocabulary and in the index is
\* answered valid with a rank exactly when it is the target or stands in
\* the target's row; otherwise it is answered invalid with the internal
\* error.
C6_KnownWordIsRankedIfInRow ==
    (/\ Guessed
     /\ last.res.guess \in vocab_set
     /\ last.res.guess \in DOMAIN offsets)
    => IF last.res.guess = target_word \/ InRow(last.res.guess)
       THEN last.res.valid /\ last.res.rank # None
       ELSE /\ ~last.res.valid
            /\ last.res.rank = None
            /\ last.res.error = Some(
                 "Internal error: guess not found in target similarity list.")

\* C6 on a target with a non-empty row: the word at the top of the row is
\* guessed and ranked
C6_Witness ==
    /\ Guessed
    /\ target_similarity_list # <<>>
    /\ last.res.guess = target_similarity_list[1][1]
    /\ last.res.guess \in vocab_set
    /\ last.res.valid /\ last.res.rank = Some(1)

\* the ranks scored since the target changed
RanksSeen == {e.rank : e \in ranks_seen}

\* an operation that served the current target
ServedTarget ==
    last'.op \in {"make_guess", "get_hint", "get_similar_word", "get_answer"}

\* the rank of the result the step returned: of a valid guess result, of a
\* hint of get_hint and of a hint of the strategist
RankReturned ==
    IF last'.op = "make_guess" /\ last'.res.valid THEN {last'.res.rank[1]}
    ELSE IF /\ last'.op \in {"get_hint", "get_similar_word"}
            /\ last'.outcome = "ok"
         THEN {last'.res.rank}
    ELSE {}

\* C7: the ranks scored since the target last changed are those of every
\* valid ranked guess result and of every hint result returned since,
\* best_rank_overall is the smallest of them, unset when there is none, and
\* it never grows while the target stays.
C7_BestRankIsMinimum ==
    /\ [][last'.op \notin {"startup", "set_target"}
            => RanksSeen' = RanksSeen \cup RankReturned]_vars
    /\ [](best_rank_overall =
            IF RanksSeen = {} THEN None
            ELSE Some(CHOOSE r \in RanksSeen : \A q \in RanksSeen : r <= q))
    /\ [][(ServedTarget /\ best_rank_overall # None)
            => /\ best_rank_overall' # None
               /\ best_rank_overall'[1] <= best_rank_overall[1]]_vars

\* C7 after a ranked guess and a hint of get_hint that beats it: the best
\* rank is the hint's
C7_Witness ==
    /\ last.op = "get_hint" /\ last.outcome = "ok"
    /\ \E r \in RanksSeen : r > last.res.rank
    /\ best_rank_overall = Some(last.res.rank)

\* a target selection that went through
TargetSelected ==
    last.op \in {"startup", "set_target"} /\ last.outcome = "ok"

\* C8: after a target selection that went through, best_rank_overall is
\* unset and hint_count is 0, whatever they were before.
C8_SelectionResetsSession ==
    TargetSelected => best_rank_overall = None /\ hint_count = 0

\* C8 on a selection that found a best rank and served hints
C8_Witness ==
    /\ TargetSelected
    /\ last.prior[1][1] # None
    /\ last.prior[1][2] > 0
    /\ best_rank_overall = None /\ hint_count = 0

\* the strength of the hint a step serves
StrengthServed ==
    IF last'.op = "get_similar_word" THEN last'.arg ELSE NoStrength

\* C9: of the hints served for one target, whichever operation served
\* them, the first SoftHintLimit are served soft and all later ones strong;
\* no soft hint follows a strong one before the target changes.
C9_SoftThenStrong ==
    [][hint_count' = hint_count + 1
         => /\ StrengthServed =
                 IF hint_count' <= SoftHintLimit THEN "soft" ELSE "strong"
            /\ (strong_served => StrengthServed # "soft")]_vars

\* C10: a target is only ever set to a word whose row is non-empty, so
\* target_total is at least 2 and no hint fails on an empty row.
C10_TargetRowNonEmpty ==
    engine = "ready" =>
        /\ target_similarity_list # <<>>
        /\ target_total >= 2
        /\ ~(/\ last.op \in {"get_hint", "get_similar_word"}
             /\ last.outcome = "RuntimeError")

\* a target selection that got past the lookup of an explicit word: the
\* constructor's or a later one
SelectionRan ==
    /\ last.op \in {"startup", "set_target"}
    /\ last.outcome \in {"ok", "NoValidTargetError"}

\* the rows set_target read on its way: the one call of
\* _read_similarity_row_at at line 148
RowReads == IF SelectionRan THEN 1 ELSE 0

\* the candidates of the selection: the explicit word alone, or every
\* indexed word
CandidatePool ==
    IF last.op = "set_target" /\ last.arg # None
    THEN {Lower(Strip(last.arg[1]))}
    ELSE DOMAIN offsets

\* C11: a target selection reads at most 3 * |candidate pool| rows and then
\* has either stored a target or failed with NoValidTargetError, and it
\* fails that way exactly when no row it read was non-empty.
C11_BoundedRetry ==
    SelectionRan =>
        /\ RowReads <= 3 * Cardinality(CandidatePool)
        /\ last.outcome = "ok" =>
             /\ last.res = Some(target_word)
             /\ target_similarity_list # <<>>
        /\ last.outcome = "NoValidTargetError" <=>
             (\A w \in CandidatePool :
                 ~RowTable[sim_path][offsets[w]].ok
                 \/ RowTable[sim_path][offsets[w]].row = <<>>)

\* what the files store, line by line: the pairs of each word in the
\* order of the line, scores in millionths
StoredRows ==
    [path \in {"bands.txt", "ragged.txt", "hollow.txt", "written.txt"} |->
       IF path = "hollow.txt"
       THEN (pup :> <<>>) @@ (rat :> <<>>)
       ELSE IF path = "written.txt"
       THEN (dog :> << <<cat, 450000>>, <<pup, 0>>, <<dog, 1000000>> >>)
         @@ (cat :> << <<dog, 450000>>, <<pup, -120000>>,
                       <<cat, 1000000>> >>)
         @@ (pup :> << <<dog, 0>>, <<cat, -120000>>, <<pup, 1000000>> >>)
       ELSE IF path = "bands.txt"
       THEN (dog :> << <<cat, 990000>>, <<pup, 900000>>, <<cow, 750000>>,
                       <<rat, 600000>> >>)
         @@ (cat :> << <<dog, 989999>>, <<pup, 899999>>, <<cow, 749999>>,
                       <<rat, 599999>> >>)
         @@ (pup :> << <<dog, 450000>>, <<cat, 300000>>, <<cow, 150000>>,
                       <<rat, -120000>> >>)
         @@ (cow :> << <<dog, 449999>>, <<cat, 299999>>, <<pup, 149999>>,
                       <<rat, 0>> >>)
         @@ (rat :> << <<dog, 1000000>>, <<cat, 440000>>, <<pup, 310000>>,
                       <<cow, 160000>> >>)
       ELSE (dog :> << <<cat, 810000>>, <<<<"f", "o", "o", ":", "b", "a", "r">>,
                       790000>>, <<rat, 770000>>, <<cat, 100000>> >>)
         @@ (cat :> << <<dog, 810000>> >>)
         @@ (rat :> <<>>)
         @@ (pup :> <<>>)
         @@ (yak :> << <<cat, 100000>>, <<dog, 200000>> >>)]

\* an explicit target was asked for and taken
ExplicitSelected ==
    last.op = "set_target" /\ last.outcome = "ok" /\ last.arg # None

\* C12: set_target with an explicit word of the index stores and returns
\* that word, trimmed and lower-cased, and the row it materializes is the
\* entry the file stores for the word, in the order of the file; the
\* outcome depends on the file and the word alone, so a repeated call
\* gives the same target and row.
C12_ExplicitTargetStored ==
    ExplicitSelected =>
        /\ NormalizedFrom(last.arg[1], target_word)
        /\ last.res = Some(target_word)
        /\ target_word \in DOMAIN StoredRows[sim_path]
        /\ target_similarity_list = StoredRows[sim_path][target_word]
        /\ target_total = Len(StoredRows[sim_path][target_word]) + 1

\* C12 on a padded, capitalised word whose line is not the first of the
\* file and stores its pairs in ascending order
C12_Witness ==
    /\ ExplicitSelected
    /\ last.arg = Some(<<TAB, "y", "A", "k", NL>>)
    /\ target_word = yak
    /\ target_similarity_list = << <<cat, 100000>>, <<dog, 200000>> >>

\* C13: set_target with an explicit word that, trimmed and lower-cased, is
\* not in the similarity index fails with the invalid-target error
\* (ValueError), and only then; the failed call leaves the target word, the
\* row, the position map and target_total as they were.
C13_InvalidTargetRejected ==
    [][(/\ last'.op = "set_target"
        /\ last'.arg # None
        /\ last'.outcome # "running") =>
         IF Lower(Strip(last'.arg[1])) \in DOMAIN offsets
         THEN last'.outcome = "ok"
         ELSE /\ last'.outcome = "ValueError"
              /\ last'.res = None
              /\ target_word' = target_word
              /\ target_similarity_list' = target_similarity_list
              /\ target_pos_map' = target_pos_map
              /\ target_total' = target_total]_vars

\* C13 on a word of the vocabulary that has no line in the file, asked for
\* while another target with a non-empty row is set
C13_Witness ==
    /\ last.op = "set_target" /\ last.outcome = "ValueError"
    /\ last.arg = Some(owl)
    /\ target_word # <<>> /\ target_word # owl
    /\ target_similarity_list # <<>>
    /\ target_total = Len(target_similarity_list) + 1

\* a hint was drawn by the strategist called on its own
HintChosen == last.op = "choose_hint"

\* C14: on a non-empty row the strategist's hint has a rank r with
\* 1 <= r <= n_others, whatever best_rank_overall is (unset or any positive
\* number) and for both strengths, and the word and the similarity it
\* returns are those of the row entry at index r - 1.
C14_HintRankInRow ==
    HintChosen =>
        /\ last.res.rank \in 1..Len(target_similarity_list)
        /\ last.res.word = target_similarity_list[last.res.rank][1]
        /\ last.res.similarity = target_similarity_list[last.res.rank][2]
        /\ last.res.total = target_total

\* C14 on a best rank above 100 and above n_others: a soft hint from the
\* band [50, 100] of a row of 102 words
C14_Witness ==
    /\ HintChosen /\ last.arg = "soft"
    /\ best_rank_overall = Some(150)
    /\ Len(target_similarity_list) = 102
    /\ last.res.rank = 100

\* C15: when best_rank_overall is set and 1 < best_rank_overall <= 100, the
\* hint's rank is strictly smaller than best_rank_overall, for every
\* n_others >= 1 and for soft hints as for strong ones.
C15_HintBeatsBestRank ==
    (/\ HintChosen
     /\ best_rank_overall # None
     /\ 1 < best_rank_overall[1]
     /\ best_rank_overall[1] <= 100)
    => last.res.rank < best_rank_overall[1]

\* C15 at the upper end of a soft window: best rank 100 in a row of 102
\* words, the hint at rank 99
C15_Witness ==
    /\ HintChosen /\ last.arg = "soft"
    /\ best_rank_overall = Some(100)
    /\ Len(target_similarity_list) = 102
    /\ last.res.rank = 99

\* a hint was served: by the engine's get_hint or by the strategist
HintServed ==
    last.op \in {"get_hint", "get_similar_word"} /\ last.outcome = "ok"

\* C16: a hint's percentile follows the rank formula of a guess and its
\* hotness is the similarity band of the hint word's stored similarity, so
\* the hint and a guess of the same word against the same target carry the
\* same percentile and the same hotness.
C16_HintScoredAsGuess ==
    HintServed =>
      LET others == IF target_total - 1 > 1 THEN target_total - 1 ELSE 1
          asGuess == GuessResult(last.res.word, target_word,
                                 target_similarity_list, target_pos_map,
                                 target_total, vocab_set, offsets)
      IN  /\ last.res.percentile.num * others
               = 100 * (others - (last.res.rank - 1)) * last.res.percentile.den
          /\ last.res.hotness = BandLabel(last.res.similarity)
          /\ (asGuess.valid /\ asGuess.rank = Some(last.res.rank)) =>
               /\ asGuess.hotness = Some(last.res.hotness)
               /\ asGuess.percentile[1].num * last.res.percentile.den
                    = last.res.percentile.num * asGuess.percentile[1].den

\* the places of the colons of a token
Colons(tok) == {i \in 1..Len(tok) : tok[i] = ":"}

\* the token cut at its last colon
BeforeLastColon(tok) ==
    SubSeq(tok, 1, (CHOOSE i \in Colons(tok) : \A j \in Colons(tok) : j <= i) - 1)

AfterLastColon(tok) ==
    SubSeq(tok, (CHOOSE i \in Colons(tok) : \A j \in Colons(tok) : j <= i) + 1,
           Len(tok))

\* u is digits, digits with one point before, among or after them, or
\* either followed by e or E and a signed or unsigned run of digits; the
\* runs of digits may hold underscores as IsDigitPart allows
IsNumberText(u) ==
    \E stop \in 1..Len(u) :
        /\ \E dot \in 0..stop :
              LET before == IF dot = 0 THEN SubSeq(u, 1, stop)
                            ELSE SubSeq(u, 1, dot - 1)
                  after == IF dot = 0 THEN <<>> ELSE SubSeq(u, dot + 1, stop)
              IN  /\ dot # 0 => u[dot] = "."
                  /\ before = <<>> \/ IsDigitPart(before)
                  /\ after = <<>> \/ IsDigitPart(after)
                  /\ before \o after # <<>>
        /\ stop < Len(u) =>
              /\ u[stop + 1] \in {"e", "E"}
              /\ LET from == IF stop + 2 <= Len(u) /\ u[stop + 2] \in {"+", "-"}
                             THEN stop + 3 ELSE stop + 2
                 IN  IsDigitPart(SubSeq(u, from, Len(u)))

\* t is a text float() accepts: white space around it, a sign, then a
\* number, inf, infinity or nan in any case
IsDecimal(t) ==
    \E a \in 1..Len(t) : \E b \in a..Len(t) :
        /\ \A k \in (1..(a - 1)) \cup ((b + 1)..Len(t)) : IsSpace(t[k])
        /\ ~IsSpace(t[a]) /\ ~IsSpace(t[b])
        /\ LET from == IF t[a] \in {"+", "-"} THEN a + 1 ELSE a
               core == SubSeq(t, from, b)
           IN  \/ IsNumberText(core)
               \/ [i \in 1..Len(core) |-> LowerFloatChar(core[i])]
                     \in {<<"i", "n", "f">>, <<"n", "a", "n">>,
                          <<"i", "n", "f", "i", "n", "i", "t", "y">>}

\* a pair "word:float" whose word holds no colon
WellFormedPair(tok) ==
    Cardinality(Colons(tok)) = 1 /\ IsDecimal(AfterLastColon(tok))

\* a token whose text after its last colon is a float
SplitsAtLastColon(tok) ==
    Colons(tok) # {} /\ IsDecimal(AfterLastColon(tok))

\* the pairs of the tokens given, in their order
PairsOf(tokens) ==
    [i \in 1..Len(tokens) |->
        <<BeforeLastColon(tokens[i]), ParseFloat(AfterLastColon(tokens[i])).val>>]

RowRead == last.op = "read_row"

\* C17: the row reader skips every token that is not a well-formed
\* word:float pair, "foo:bar:0.5" and "foo" among them, without raising, and
\* returns exactly the well-formed tokens of the line, all of them, in their
\* order.
C17_MalformedSkipped ==
    RowRead =>
        /\ last.outcome = "ok"
        /\ last.res = Some(PairsOf(SelectSeq(last.arg, WellFormedPair)))

\* C17 as the reader has it: a token is skipped, without raising, when it
\* has no colon or when the text after its last colon is no float; every
\* other token is kept, cut at its last colon, so that "foo:bar:0.5" is the
\* word "foo:bar" with the score 0.5; the row is the kept tokens, all of
\* them, in their order.
C17_SkippedUnlessFloatAfterLastColon ==
    RowRead =>
        /\ last.outcome = "ok"
        /\ last.res = Some(PairsOf(SelectSeq(last.arg, SplitsAtLastColon)))

\* C17 on a line with a token without colon between two pairs, the second
\* of them a word with a colon in it
C17_Witness ==
    /\ RowRead
    /\ last.arg = << <<"c", "a", "t", ":", "0", ".", "8", "1">>,
                     <<"f", "o", "o">>,
                     <<"f", "o", "o", ":", "b", "a", "r", ":", "0", ".", "5">> >>
    /\ last.res = Some(<< <<cat, 810000>>,
                          <<<<"f", "o", "o", ":", "b", "a", "r">>, 500000>> >>)

\* a guess or a hint was asked of a ready engine
GuessOrHintAsked ==
    /\ engine = "ready"
    /\ last.op \in {"make_guess", "actions_make_guess", "get_hint",
                    "get_similar_word"}

\* C18: in a Ready state no guess and no hint raises to its caller: each
\* ends with a result record, and a guess that fails, the one that is in
\* the vocabulary and the index but not in the target's row included, is
\* answered valid=false with an error message.
C18_NoExceptionToCaller ==
    GuessOrHintAsked =>
        /\ last.outcome = "ok"
        /\ last.res # None
        /\ (last.op \in {"make_guess", "actions_make_guess"}
              /\ ~last.res.valid) => last.res.error # None

\* C19: in every result of a guess, valid is true exactly when error is
\* absent and exactly when is_correct, rank, total, similarity, percentile
\* and hotness are all present; when valid is false the six are all absent
\* and error is present.
C19_FieldPresence ==
    Guessed =>
      LET r == last.res
          six == <<r.is_correct, r.rank, r.total, r.similarity, r.percentile,
                   r.hotness>>
          present == {i \in 1..6 : six[i] # None}
      IN  /\ r.valid \in BOOLEAN
          /\ r.valid <=> r.error = None
          /\ r.valid <=> present = 1..6
          /\ ~r.valid => present = {} /\ r.error # None

\* C19 on the failure that comes after valid was set: a word of the
\* vocabulary and the index that the target's row does not hold
C19_Witness ==
    /\ Guessed
    /\ last.res.guess \in vocab_set /\ last.res.guess \in DOMAIN offsets
    /\ ~last.res.valid
    /\ last.res.error # None
    /\ last.res.rank = None /\ last.res.hotness = None

\* the row the similarity file holds for the word
RowOf(w) == RowTable[sim_path][offsets[w]].row

\* the last guess ended as make_guess ends on the engine that holds the
\* word w with its row, position map and total
GuessedOn(w) ==
    /\ last.outcome = "ok"
    /\ last.res = GuessResult(last.arg, w, RowOf(w), BuildPosMap(RowOf(w)),
                              Len(RowOf(w)) + 1, vocab_set, offsets)

\* the last hint ended as get_hint ends on the engine that holds the word w
\* with its row and total
HintedOn(w) ==
    IF RowOf(w) = <<>> THEN last.outcome = "RuntimeError"
    ELSE /\ last.outcome = "ok"
         /\ \E idx \in HintIndexes(last.arg, Len(RowOf(w))) :
               last.res = HintRecord(RowOf(w), Len(RowOf(w)) + 1, idx)

\* C20: calls on one engine are serialized: no guess and no hint runs
\* between the steps of a re-target, so each of them is scored against the
\* word, row, position map and total of one and the same target.
C20_ScoredOnOneSnapshot ==
    /\ last.op = "make_guess" => \E w \in DOMAIN offsets : GuessedOn(w)
    /\ last.op = "get_hint" => \E w \in DOMAIN offsets : HintedOn(w)

\* the startup conditions the specification calls fatal: a missing
\* similarity or vocabulary source, no indexed word, no word with a row
FatalSetup ==
    \/ ~Exists(sim_path)
    \/ ~Exists(nouns_path)
    \/ DOMAIN IndexTable[sim_path] = {}
    \/ \A w \in DOMAIN IndexTable[sim_path] :
          RowTable[sim_path][IndexTable[sim_path][w]].row = <<>>

\* an engine exists and holds a target with a row
TargetLoaded == engine = "ready" /\ target_similarity_list # <<>>

\* C21: after a fatal initialization failure there is no engine and no
\* target, every guess, hint and reveal request is rejected as engine not
\* initialized, and health says "ok" exactly when an engine with a loaded
\* target exists.
C21_FailedInitLeavesNoEngine ==
    /\ (FatalSetup /\ engine # "unset")
          => /\ engine = "none"
             /\ target_word = <<>>
             /\ last.op \in {"make_guess", "get_hint", "get_answer"}
                         \cup EngineRoutes
                   => last.outcome = "HTTPException"
    /\ last.op = "health"
          => /\ last.res.status = "ok" <=> TargetLoaded
             /\ last.res.status = "degraded" <=> ~TargetLoaded

RowWritten == last.op = "write_row"

\* the row a reader gets from the written line
WrittenRow == ReadSimilarityRowAt(last.res, 0).row

\* C22: the row the writer emits for a word lists the other words in
\* descending order of score and does not contain the word itself.
C22_WrittenRowSortedWithoutSelf ==
    RowWritten =>
        /\ \A k \in 1..(Len(WrittenRow) - 1) :
              WrittenRow[k][2] >= WrittenRow[k + 1][2]
        /\ \A k \in 1..Len(WrittenRow) :
              WrittenRow[k][1] # WriterWords[last.arg.i]

\* a hint, top-N or strategist, was returned
HintReturned ==
    last.op \in {"get_hint", "get_similar_word"} /\ last.outcome = "ok"

\* C23: in every Ready state the target word is not in its own row and the
\* row's scores never increase, so no hint returns the target word itself.
C23_TargetNotInOwnRow ==
    engine = "ready" =>
        /\ ~InRow(target_word)
        /\ \A k \in 1..(Len(target_similarity_list) - 1) :
              target_similarity_list[k][2] >= target_similarity_list[k + 1][2]
        /\ HintReturned => last.res.word # target_word

\* the ranks of the band section 4.4 gives for a row of n entries
SpecifiedBand(n, best_rank, strength) ==
    IF best_rank = None \/ best_rank[1] > 100
    THEN IF strength = "strong" THEN 1..Min2(50, n)
         ELSE IF n < 50 THEN 1..Min2(20, n)
         ELSE 50..Min2(100, n)
    ELSE LET best == Min2(best_rank[1], n)
         IN  IF best <= 1 THEN 1..Min2(5, n)
             ELSE IF strength = "strong" THEN 1..(best - 1)
             ELSE Max2(1, best - Max2(5, best \div 2))..(best - 1)

\* the ranks choose_hint may draw on the engine's row
DrawableRanks(strength) ==
    {idx + 1 : idx \in ChooseHintIndexes(Len(target_similarity_list),
                                         best_rank_overall, strength)}

\* C24: for every row of at least one entry, the ranks the strategist draws
\* from are exactly the band of section 4.4 for the best rank and the
\* strength, the band is never empty, and the drawn rank lies in it.
C24_HintBandAsSpecified ==
    /\ (last.op = "none" /\ target_similarity_list # <<>>)
          => \A strength \in {"soft", "strong"} :
                /\ DrawableRanks(strength)
                     = SpecifiedBand(Len(target_similarity_list),
                                     best_rank_overall, strength)
                /\ DrawableRanks(strength) # {}
    /\ HintChosen
          => last.res.rank \in SpecifiedBand(Len(target_similarity_list),
                                             best_rank_overall, last.arg)

\* a soft hint for a player with no best rank on a row of 22 entries: the
\* window falls back to the top 20 and its last rank is drawn
C24_Witness ==
    /\ HintChosen
    /\ last.arg = "soft"
    /\ best_rank_overall = None
    /\ Len(target_similarity_list) = 22
    /\ last.res.rank = 20

\* get_hint returned a hint in this step
HintStep == last'.op = "get_hint" /\ last'.outcome = "ok"

\* C25: on a non-empty row, get_hint(top_n) returns a rank between 1 and
\* min(max(top_n, 1), n_others), the word and the similarity of the row
\* entry at that rank, and target_total as the total; it leaves the target
\* word, the row, the position map and target_total as they were.
C25_LiveHintFromTopN ==
    [][HintStep =>
         LET hint == last'.res
             top_n == last'.arg
             n_others == Len(target_similarity_list)
         IN  /\ n_others >= 1
             /\ 1 <= hint.rank
             /\ hint.rank <= Min2(Max2(top_n, 1), n_others)
             /\ hint.word = target_similarity_list[hint.rank][1]
             /\ hint.similarity = target_similarity_list[hint.rank][2]
             /\ hint.total = target_total
             /\ target_vars' = target_vars]_vars

\* the route's get_hint(top_n=10) on a row of four entries returning the
\* last of them
C25_Witness ==
    /\ last.op = "get_hint"
    /\ last.outcome = "ok"
    /\ last.arg = DefaultTopN
    /\ Len(target_similarity_list) = 4
    /\ last.res.rank = 4
    /\ last.res.word = target_similarity_list[4][1]

\* the words occurring in the target row
RowWords ==
    {target_similarity_list[k][1] : k \in 1..Len(target_similarity_list)}

\* the total and the index-lookup map agree with the row
DerivedAgree ==
    /\ target_total = Len(target_similarity_list) + 1
    /\ DOMAIN target_pos_map = RowWords
    /\ \A w \in DOMAIN target_pos_map :
          /\ target_pos_map[w] \in 0..(Len(target_similarity_list) - 1)
          /\ target_similarity_list[target_pos_map[w] + 1][1] = w

\* the operations that only read the target
ReadingOps ==
    {"make_guess", "get_hint", "get_similar_word", "get_answer",
     "actions_make_guess"}

\* C26: after construction and after every set_target that has returned
\* the total is the row length plus one, the keys of the index-lookup map are the
\* words of the row and each key's index leads to an entry with that word;
\* guess, hint and reveal operations change none of the target word, the
\* row, the map and the total.
C26_DerivedStructuresAgree ==
    [][/\ (engine' = "ready" /\ ~Selecting') => DerivedAgree'
       /\ last'.op \in ReadingOps => target_vars' = target_vars]_vars

\* set_target has stored a row in which a word occurs twice; the map leads
\* to its later entry
C26_Witness ==
    /\ last.op = "set_target"
    /\ last.outcome = "ok"
    /\ Len(target_similarity_list) > Cardinality(RowWords)
    /\ DerivedAgree

\* C27: the label "Correct" is kept for the correct answer: a guess result
\* has is_correct true exactly when the normalized guess is the target, and
\* neither a guess result with is_correct false nor a hint carries the
\* hotness "Correct".
C27_CorrectLabelReserved ==
    /\ (Guessed /\ last.res.valid)
          => /\ last.res.is_correct = Some(TRUE)
                   <=> last.res.guess = target_word
             /\ last.res.is_correct = Some(FALSE)
                   => last.res.hotness # Some("Correct")
    /\ HintReturned => last.res.hotness # "Correct"

====
